---- MODULE Spec2Model ----
(***************************************************************************)
(* Model of "Eyes for Agents":                                             *)
(*   - EyesRunner (src/src/runner.js): run, _execute, _dispatch,           *)
(*     _errorInfo;                                                         *)
(*   - AgentEyes (src/agent-eyes.js): open, close, the primitive actions,  *)
(*     _requirePage, _afterAction, _pushRing and the event handlers;       *)
(*   - guardNavigation, isPrivateHostname (src/security.js);               *)
(*   - serializeDOM, a11ySnapshot, diffDataURLs, aHashDataURL              *)
(*     (src/artifacts.js);                                                 *)
(*   - toEyesError (src/src/errors.js).                                    *)
(* The external engine (Playwright) is a nondeterministic environment: an  *)
(* operation handed to it is "in flight" until the engine settles it.      *)
(*                                                                         *)
(* Specifications:                                                         *)
(*   Spec, FairSpec  a plan run by EyesRunner on a session that its owner  *)
(*                   may open and close at any time;                       *)
(*   SessionSpec     the session used directly: open() and close() step by *)
(*                   step, primitive actions called one at a time;         *)
(*   RingSpec        the console and network buffers under a stream of     *)
(*                   page events;                                          *)
(*   GuardSpec       guardNavigation called repeatedly with fixed options; *)
(*   FrameSpec       the preview-frame timer of a session constructed with *)
(*                   any frameStream.fps the constructor accepts;          *)
(*   ShotSpec        screenshot() called on the session;                   *)
(*   StabSpec        visualStability() called on the session;              *)
(*   DiffSpec        diffDataURLs called on two images;                    *)
(*   HashSpec        aHashDataURL called twice;                            *)
(*   DomSpec         serializeDOM evaluated on a document;                 *)
(*   ReadSpec        getConsole and getNetwork called on filled buffers;   *)
(*   MeterSpec       SessionSpec with metrics() called at any point;       *)
(*   OverlapSpec     open() called while earlier open() calls are still in *)
(*                   progress;                                             *)
(*   BackSpec        ShotSpec with the preview-frame timer and the page's  *)
(*                   console and network events.                           *)
(***************************************************************************)
EXTENDS Integers, Sequences, FiniteSets, TLC

VARIABLES
    page,        \* AgentEyes.page: "null" | "open" | "closing" (non-null, page.close() running)
    metrics,     \* AgentEyes._metrics: [actions, errors]
    now,         \* Date.now(), in ms, saturated at MaxClock
    rpc,         \* position of EyesRunner.run
    plan,        \* the argument of run: [hasSteps, len, abortOnError, maxDurationMs]
    started,     \* run: const started
    i,           \* run: loop index (0-based)
    step,        \* run: plan.steps[i]
    attempt,     \* _execute: loop index i (0-based)
    outcomes,    \* history: outcome of every _dispatch of the current step
    sleeps,      \* history: backoffs (ms) slept to completion for the current step
    lastError,   \* run: let lastError
    inflight,    \* engine operations issued and not yet settled
    dispatched,  \* history: indices of the steps for which _dispatch was called
    failed,      \* history: the steps whose _execute threw, in order
    report,      \* the value run resolves to
    thrown,      \* the error run rejects with ("none" when it did not reject)
    closedDuringRun, \* history: a close() completed while run was executing
    console,     \* AgentEyes._console
    network,     \* AgentEyes._network
    consoleSeen, \* history: every console record reported, in arrival order
    networkSeen, \* history: every network record reported, in arrival order
    feed,        \* the page's event stream: the cycle of event kinds it emits
    nEvents,     \* number of events the page has emitted
    browser,     \* AgentEyes.browser: "null" | "set"
    context,     \* AgentEyes.context: "null" | "set"
    frameInterval, \* AgentEyes._frameInterval is set (the preview timer runs)
    opening,     \* the open() in progress: the engine call it awaits
    closers,     \* number of close() calls awaiting Promise.all(tasks)
    pending,     \* the primitive action awaiting the engine (called directly)
    nCalls,      \* number of primitive actions called directly
    life,        \* history: "new" | "opening" | "opened" (an open() returned without error)
    closes,      \* history: close() calls completed since the last open() began
    overlap,     \* history: the latest close() ran while an open() was in progress
    closeThrew,  \* history: a close() rejected
    last,        \* history: the latest primitive action called directly
    options,     \* the guard's options: [allowNavigationTo, blockPrivateIPs]
    lastIndex,   \* options.allowNavigationTo.lastIndex (0, or 1: past the match)
    gLast,       \* history: the latest call of guardNavigation
    fps,         \* options.frameStream.fps: given or not, and its value in tenths of a frame per second
    period,      \* period (ms) of the preview timer; 0 while no timer is set
    shot,        \* the screenshot() call in progress or last made
    stab,        \* the visualStability() call in progress or last made
    cmp,         \* the diffDataURLs() call in progress or last made
    hash,        \* the aHashDataURL() call in progress or last made
    dom,         \* the serializeDOM() evaluation in progress or last made
    got,         \* what the last getConsole / getNetwork / metrics call returned
    bg,          \* history of the background activities: timer ticks, 'frame' events
                 \* emitted, an error left uncaught, callbacks resumed after close()
    multi        \* open() called by several callers at once: their positions and effects

vars == <<page, metrics, now, rpc, plan, started, i, step, attempt, outcomes,
          sleeps, lastError, inflight, dispatched, failed, report, thrown,
          closedDuringRun,
          console, network, consoleSeen, networkSeen, feed, nEvents,
          browser, context, frameInterval, opening, closers, pending, nCalls,
          life, closes, overlap, closeThrew, last,
          options, lastIndex, gLast,
          fps, period, shot, stab, cmp, hash, dom, got, bg, multi>>

runVars == <<page, metrics, now, rpc, plan, started, i, step, attempt, outcomes,
             sleeps, lastError, inflight, dispatched, failed, report, thrown,
             closedDuringRun>>
ringVars == <<console, network, consoleSeen, networkSeen, feed, nEvents>>
handleVars == <<browser, context, frameInterval>>
lifeVars == <<opening, closers, pending, nCalls, life, closes, overlap, closeThrew, last>>
guardVars == <<options, lastIndex, gLast>>
frameVars == <<fps, period>>
shotVars == <<shot>>
stabVars == <<stab>>
imageVars == <<cmp, hash>>
domVars == <<dom>>
getVars == <<got>>
backVars == <<bg>>
multiVars == <<multi>>
sideVars == <<getVars, backVars, multiVars>>
toolVars == <<shotVars, stabVars, imageVars, domVars, sideVars>>
utilVars == <<frameVars, toolVars>>
auxVars == <<ringVars, handleVars, lifeVars, guardVars, utilVars>>

sessionVars == <<page, metrics>>
runnerVars == <<rpc, plan, started, i, step, attempt, outcomes, sleeps,
                lastError, dispatched, failed, report, thrown>>

Running == rpc \notin {"idle", "rejected", "done"}

----------------------------------------------------------------------------
(* Bounds of the model *)

\* longest plan whose steps are drawn freely
MaxPlanLen == 2
\* the clock saturates here (every budget drawn is below it)
MaxClock == 600
\* a budget (plan.maxDurationMs) that the first backoff may or may not exceed
BudgetMs == 350
\* duration of a slow engine operation
SlowMs == 500

----------------------------------------------------------------------------
(* Program constants *)

maxSteps == 50
FragileAttempts == 3
BackoffBaseMs == 300
BackoffCapMs == 2000
JitterRange == 100

Min(a, b) == IF a < b THEN a ELSE b

RECURSIVE Pow2(_)
Pow2(n) == IF n = 0 THEN 1 ELSE 2 * Pow2(n - 1)

----------------------------------------------------------------------------
(* Values *)

NoStep == [action |-> "none", for |-> "none", selector |-> FALSE, text |-> FALSE, url |-> "none"]
NoError == [step |-> -1, code |-> "none", cause |-> "none"]
NoReport == [success |-> FALSE, error |-> "none", errorStep |-> -1,
             screenshot |-> "unset", domSnippet |-> "unset", lastState |-> "unset"]
NoPlan == [hasSteps |-> FALSE, len |-> 0, abortOnError |-> "undefined", maxDurationMs |-> 0]

Actions == {"navigate", "click", "type", "wait", "scroll", "keys", "exec"}

\* The steps a plan may hold: per action, the arguments that decide its path.
\* selector: the action's selector argument is given (for scroll:
\* intoViewSelector; for setContent: html is a string); text: click's text
\* argument is given (a plan's clicks are by selector); url: the class of
\* navigate's url.
StepSet ==
    {[action |-> "click", for |-> "none", selector |-> s, text |-> FALSE, url |-> "none"] : s \in BOOLEAN}
    \cup {[action |-> "wait", for |-> "selector", selector |-> s, text |-> FALSE, url |-> "none"] : s \in BOOLEAN}
    \cup {[action |-> "wait", for |-> f, selector |-> FALSE, text |-> FALSE, url |-> "none"] : f \in {"timeout", "bogus"}}
    \cup {[action |-> "type", for |-> "none", selector |-> s, text |-> FALSE, url |-> "none"] : s \in BOOLEAN}
    \cup {[action |-> "navigate", for |-> "none", selector |-> FALSE, text |-> FALSE, url |-> u] : u \in {"none", "public", "private"}}
    \cup {[action |-> "scroll", for |-> "none", selector |-> s, text |-> FALSE, url |-> "none"] : s \in BOOLEAN}
    \cup {[action |-> a, for |-> "none", selector |-> FALSE, text |-> FALSE, url |-> "none"] : a \in {"keys", "exec", "bogus"}}

\* A plan longer than MaxPlanLen is drawn as copies of one unknown-action step.
LongStep == [action |-> "bogus", for |-> "none", selector |-> FALSE, text |-> FALSE, url |-> "none"]

StepsOf(p) == IF p.len > MaxPlanLen THEN {LongStep} ELSE StepSet

PlanSet ==
    {[hasSteps |-> h, len |-> n, abortOnError |-> a, maxDurationMs |-> b] :
        h \in BOOLEAN, n \in (0..MaxPlanLen) \cup {maxSteps, maxSteps + 1},
        a \in {"undefined", "true", "false"}, b \in {0, BudgetMs}}

Jitter == {0, JitterRange - 1}
Durations == {0, SlowMs}

----------------------------------------------------------------------------
(* errors.js *)

EyesCodes == {"ELEMENT_NOT_FOUND", "NAVIGATION_TIMEOUT", "SCRIPT_ERROR",
              "SECURITY_BLOCKED", "RATE_LIMIT", "BAD_INPUT", "INTERNAL"}

\* toEyesError: an EyesError passes through, anything else becomes INTERNAL.
\* "raw" stands for an error of the engine (not an EyesError).
toEyesError(code) == IF code \in EyesCodes THEN code ELSE "INTERNAL"

----------------------------------------------------------------------------
(* security.js: guardNavigation *)

\* Raw URLs. A host is an IPv4 quad a.b.0.1, an IPv6 address whose first group
\* is g1 and whose other groups are zero but for the last ("one": g1::1, or ::1
\* when g1 = 0), or a domain name given by its labels as typed.
V4Hosts ==
    {[kind |-> "v4", a |-> q[1], b |-> q[2], g1 |-> 0, labels |-> <<>>] :
        q \in {<<10, 0>>, <<127, 0>>, <<169, 254>>, <<172, 15>>, <<172, 16>>,
               <<172, 31>>, <<172, 32>>, <<192, 168>>, <<8, 8>>}}
V6Hosts ==
    {[kind |-> "v6", a |-> 0, b |-> 0, g1 |-> g, labels |-> <<>>] :
        g \in {0, 8193, 64512, 64768, 64786, 65023, 65152, 65215, 65216}}
NameHosts ==
    {[kind |-> "name", a |-> 0, b |-> 0, g1 |-> 0, labels |-> l] :
        l \in {<<"localhost">>, <<"LOCALHOST">>, <<"example", "com">>}}

Schemes == {"http", "HTTPS", "ftp"}

NotAUrl == [valid |-> FALSE, scheme |-> "none",
            host |-> [kind |-> "none", a |-> 0, b |-> 0, g1 |-> 0, labels |-> <<>>]]

UrlSet ==
    {NotAUrl} \cup
    {[valid |-> TRUE, scheme |-> sc, host |-> h] :
        sc \in Schemes, h \in V4Hosts \cup V6Hosts \cup NameHosts}

NoAllow == [accepts |-> "none", global |-> FALSE]

\* The allow-patterns: what the pattern accepts and whether it has the g flag.
\* Every pattern is anchored at the start of the URL (^), so a test that starts
\* at a lastIndex past 0 finds nothing.
AllowSet ==
    {NoAllow} \cup
    {[accepts |-> a, global |-> g] : a \in {"httpsExample", "anyHttp", "anyUrl"}, g \in BOOLEAN}

OptionsSet ==
    {[allowNavigationTo |-> al, blockPrivateIPs |-> b] :
        al \in AllowSet, b \in {"undefined", "true", "false"}}

\* new URL(url): lower-cases the scheme and the host
LowerCase(str) ==
    CASE str = "HTTPS" -> "https"
      [] str = "LOCALHOST" -> "localhost"
      [] OTHER -> str

\* URL.hostname: the quad in decimal, the IPv6 address in brackets, or the
\* lower-cased name
Hostname(h) ==
    CASE h.kind = "v4" ->
            [kind |-> "v4", brackets |-> FALSE, g1 |-> 0,
             labels |-> <<ToString(h.a), ToString(h.b), "0", "1">>]
      [] h.kind = "v6" ->
            [kind |-> "v6", brackets |-> TRUE, g1 |-> h.g1, labels |-> <<>>]
      [] OTHER ->
            [kind |-> "name", brackets |-> FALSE, g1 |-> 0,
             labels |-> [k \in 1..Len(h.labels) |-> LowerCase(h.labels[k])]]

\* ensureValidUrl, lines 23-25: the parsed URL (protocol, hostname; the path of
\* every URL of UrlSet becomes "/")
ensureValidUrl(raw) ==
    [protocol |-> LowerCase(raw.scheme), hostname |-> Hostname(raw.host), path |-> "/"]

\* u.toString()
Href(u) == <<u.protocol, "://", u.hostname, u.path>>

\* the hexadecimal digits of an IPv6 group as the URL serializer writes them
RECURSIVE HexDigits(_)
HexDigits(n) == IF n < 16 THEN <<n>> ELSE Append(HexDigits(n \div 16), n % 16)

\* hn starts with the labels pre followed by a dot
DottedPrefix(hn, pre) ==
    /\ hn.kind \in {"v4", "name"}
    /\ Len(hn.labels) > Len(pre)
    /\ \A k \in 1..Len(pre) : hn.labels[k] = pre[k]

\* hn starts with the group whose digits are ds, followed by a colon
GroupPrefix(hn, ds) ==
    /\ hn.kind = "v6"
    /\ ~hn.brackets
    /\ hn.g1 # 0
    /\ HexDigits(hn.g1) = ds

\* PRIVATE_CIDRS, lines 4-17, in order
PRIVATE_CIDRS ==
    <<"^10\\.", "^127\\.", "^169\\.254\\.", "^172\\.(1[6-9]|2\\d|3[0-1])\\.", "^192\\.168\\.",
      "^\\[?::1\\]?$", "^fe80:", "^fc00:", "^fd00:", "^localhost$">>

\* re.test(hn) for the regular expressions of PRIVATE_CIDRS
Test(re, hn) ==
    CASE re = "^10\\." -> DottedPrefix(hn, <<"10">>)
      [] re = "^127\\." -> DottedPrefix(hn, <<"127">>)
      [] re = "^169\\.254\\." -> DottedPrefix(hn, <<"169", "254">>)
      [] re = "^172\\.(1[6-9]|2\\d|3[0-1])\\." ->
            \E k \in 16..31 : DottedPrefix(hn, <<"172", ToString(k)>>)
      [] re = "^192\\.168\\." -> DottedPrefix(hn, <<"192", "168">>)
      [] re = "^\\[?::1\\]?$" -> hn.kind = "v6" /\ hn.g1 = 0
      [] re = "^fe80:" -> GroupPrefix(hn, <<15, 14, 8, 0>>)
      [] re = "^fc00:" -> GroupPrefix(hn, <<15, 12, 0, 0>>)
      [] re = "^fd00:" -> GroupPrefix(hn, <<15, 13, 0, 0>>)
      [] OTHER -> hn.kind = "name" /\ hn.labels = <<"localhost">>

\* isPrivateHostname, lines 52-58: the brackets are stripped, then each
\* expression is tried
isPrivateHostname(hostname) ==
    LET hn == [hostname EXCEPT !.brackets = FALSE] IN
    \E k \in 1..Len(PRIVATE_CIDRS) : Test(PRIVATE_CIDRS[k], hn)

\* what an allow-pattern matches
Accepts(al, u) ==
    CASE al.accepts = "httpsExample" ->
            u.protocol = "https" /\ u.hostname.labels = <<"example", "com">>
      [] al.accepts = "anyHttp" -> u.protocol \in {"http", "https"}
      [] al.accepts = "anyUrl" -> TRUE
      [] OTHER -> FALSE

\* RegExp.prototype.test on the allow-pattern: with the g flag the search
\* starts at lastIndex and leaves lastIndex past the match, or at 0 on failure
RegexTest(al, li, u) ==
    IF ~al.global THEN [ok |-> Accepts(al, u), li |-> li]
    ELSE IF li = 0 /\ Accepts(al, u) THEN [ok |-> TRUE, li |-> 1]
    ELSE [ok |-> FALSE, li |-> 0]

\* Faulty variant: any scheme passes
MutSchemeOk(protocol) == TRUE

\* line 35: /^https?:$/.test(protocol)
SchemeOk(protocol) == protocol \in {"http", "https"}

\* Faulty variant: the allowlist is consulted only when private hosts are blocked
MutHasAllowPattern(opts) == opts.allowNavigationTo # NoAllow /\ opts.blockPrivateIPs # "false"

\* line 38: options.allowNavigationTo is set
HasAllowPattern(opts) == opts.allowNavigationTo # NoAllow

\* Faulty variant: private hosts are blocked whatever the option says
MutBlockPrivate(opts) == TRUE

\* line 41: options.blockPrivateIPs !== false
BlockPrivate(opts) == opts.blockPrivateIPs # "false"

GuardThrow(code, li) == [out |-> code, url |-> <<>>, li |-> li]

\* Faulty variant: a URL that the allow-pattern matches is returned at once,
\* before the private-host rule is consulted
MutguardNavigation(raw, opts, li) ==
    IF ~raw.valid THEN GuardThrow("BAD_INPUT", li)
    ELSE LET u == ensureValidUrl(raw)
             t == RegexTest(opts.allowNavigationTo, li, u)
         IN IF ~SchemeOk(u.protocol) THEN GuardThrow("SECURITY_BLOCKED", li)
            ELSE IF HasAllowPattern(opts) /\ ~t.ok THEN GuardThrow("SECURITY_BLOCKED", t.li)
            ELSE IF HasAllowPattern(opts) THEN [out |-> "ok", url |-> Href(u), li |-> t.li]
            ELSE IF BlockPrivate(opts) /\ isPrivateHostname(u.hostname)
                 THEN GuardThrow("SECURITY_BLOCKED", li)
                 ELSE [out |-> "ok", url |-> Href(u), li |-> li]

\* guardNavigation, lines 32-47: the outcome, the URL returned and the
\* lastIndex the allow-pattern is left with
guardNavigation(raw, opts, li) ==
    IF ~raw.valid THEN GuardThrow("BAD_INPUT", li)
    ELSE LET u == ensureValidUrl(raw)
             t == RegexTest(opts.allowNavigationTo, li, u)
         IN IF ~SchemeOk(u.protocol) THEN GuardThrow("SECURITY_BLOCKED", li)
            ELSE IF HasAllowPattern(opts) /\ ~t.ok THEN GuardThrow("SECURITY_BLOCKED", t.li)
            ELSE LET li2 == IF HasAllowPattern(opts) THEN t.li ELSE li IN
                 IF BlockPrivate(opts) /\ isPrivateHostname(u.hostname)
                 THEN GuardThrow("SECURITY_BLOCKED", li2)
                 ELSE [out |-> "ok", url |-> Href(u), li |-> li2]

----------------------------------------------------------------------------
(* AgentEyes: what a primitive action does before it reaches the engine *)

\* The URL a step's url class stands for: http://10.0.0.1/ or http://example.com/
ClassUrl(url) ==
    [valid |-> TRUE, scheme |-> "http",
     host |-> IF url = "private"
              THEN [kind |-> "v4", a |-> 10, b |-> 0, g1 |-> 0, labels |-> <<>>]
              ELSE [kind |-> "name", a |-> 0, b |-> 0, g1 |-> 0, labels |-> <<"example", "com">>]]

\* Faulty variant: navigate hands the URL to the engine without consulting the guard
MutGuardOutcome(url) == "ok"

\* navigate, line 176: guardNavigation(args.url, { allowNavigationTo, blockPrivateIPs })
\* with the session's options (the allow-pattern, when there is one, keeps the
\* lastIndex the call leaves it with)
GuardOutcome(url) == guardNavigation(ClassUrl(url), options, lastIndex).out

Throw(code, cause, errs) == [kind |-> "throw", code |-> code, cause |-> cause, errs |-> errs]
ToEngine == [kind |-> "engine", code |-> "none", cause |-> "none", errs |-> 0]
Immediate == [kind |-> "ok", code |-> "none", cause |-> "none", errs |-> 0]

\* Faulty variant: the null-page check is missing: the call goes on to the engine
MutRequirePageThrows(pg) == FALSE

\* _requirePage: a null page is the INTERNAL 'Eyes not opened' error.
RequirePageThrows(pg) == pg = "null"

\* The synchronous part of eyes.<action>(args), up to the first engine call.
\* errs is the increment of _metrics.errors made on the way (a throw inside the
\* action's try block passes through its catch block).
SessionCall(st, pg) ==
    IF RequirePageThrows(pg) THEN Throw("INTERNAL", "notopen", 0)
    ELSE CASE st.action = "navigate" ->
                IF st.url = "none" THEN Throw("BAD_INPUT", "validation", 0)
                ELSE IF GuardOutcome(st.url) # "ok" THEN Throw(GuardOutcome(st.url), "guard", 0)
                ELSE ToEngine
           [] st.action = "wait" ->
                IF st.for = "selector"
                THEN (IF ~st.selector THEN Throw(toEyesError("BAD_INPUT"), "validation", 1) ELSE ToEngine)
                ELSE IF st.for \in {"networkidle", "timeout"} THEN ToEngine
                ELSE Throw(toEyesError("BAD_INPUT"), "validation", 1)
           [] st.action = "click" ->
                IF st.selector \/ st.text THEN ToEngine
                ELSE Throw("ELEMENT_NOT_FOUND", "validation", 1)
           [] st.action = "type" ->
                IF ~st.selector THEN Throw("BAD_INPUT", "validation", 0) ELSE ToEngine
           [] st.action = "scroll" ->
                IF st.selector THEN ToEngine ELSE Immediate
           [] st.action = "setContent" ->
                IF ~st.selector THEN Throw("BAD_INPUT", "validation", 0) ELSE ToEngine
           [] OTHER -> ToEngine

\* The error an action throws when its engine call fails: the action's own
\* error kind, or toEyesError of the engine's error; dom (line 401) and a11y
\* have no catch block and pass the engine's error on as it is.
EngineFailCode(st) ==
    CASE st.action = "navigate" -> "NAVIGATION_TIMEOUT"
      [] st.action \in {"click", "type"} -> "ELEMENT_NOT_FOUND"
      [] st.action = "exec" -> "SCRIPT_ERROR"
      [] st.action \in {"dom", "a11y"} -> "raw"
      [] OTHER -> toEyesError("raw")

\* page.waitForTimeout on a live page only ever resolves.
EngineMayFail(st, pg) == ~(st.action = "wait" /\ st.for = "timeout" /\ pg = "open")

\* An operation bound to a page whose close has completed cannot succeed.
EngineMaySucceed(pg) == pg # "closed"

AfterAction(m) == [m EXCEPT !.actions = @ + 1]
CountError(m, n) == [m EXCEPT !.errors = @ + n]

----------------------------------------------------------------------------
(* EyesRunner *)

\* Faulty variant: the limit test is off by one: a plan of exactly maxSteps steps is rejected
MutValidPlan(p) == p.hasSteps /\ ~(p.len >= maxSteps)

\* run, lines 20-22
ValidPlan(p) == p.hasSteps /\ ~(p.len > maxSteps)

\* Faulty variant: every wait is taken as fragile, whatever args.for is
MutFragile(st) == st.action = "click" \/ st.action = "wait"

\* _execute, lines 52-53
Fragile(st) == st.action = "click" \/ (st.action = "wait" /\ st.for = "selector")
Attempts(st) == IF Fragile(st) THEN FragileAttempts ELSE 1

\* Faulty variant: the last attempt is taken to be one past the limit, so a
\* backoff is slept after the final attempt too
MutIsLast(a, st) == a = Attempts(st)

\* _execute, line 61
IsLast(a, st) == a = Attempts(st) - 1

\* Faulty variant: the backoff does not grow with the attempt index
MutBackoff(a, j) == Min(BackoffCapMs, BackoffBaseMs) + j

\* _execute, line 63
Backoff(a, j) == Min(BackoffCapMs, BackoffBaseMs * Pow2(a)) + j

\* _dispatch
Dispatch(st, pg) ==
    IF st.action \in Actions THEN SessionCall(st, pg)
    ELSE Throw("BAD_INPUT", "validation", 0)

\* Faulty variant: only an explicit true aborts: the default continues
MutAbortOn(p) == p.abortOnError = "true"

\* run, line 35
AbortOn(p) == p.abortOnError # "false"

\* Faulty variant: the budget is honoured only by a run that aborts on error
MutOverBudget(p, t, t0) ==
    p.abortOnError # "false" /\ p.maxDurationMs # 0 /\ t - t0 > p.maxDurationMs

\* run, line 37
OverBudget(p, t, t0) == p.maxDurationMs # 0 /\ t - t0 > p.maxDurationMs

\* Faulty variant: the loop index skips a step
MutNextIndex(n) == n + 2

\* run, line 29: i++
NextIndex(n) == n + 1

Op(kind, ms) == [kind |-> kind, step |-> i, attempt |-> attempt, ms |-> ms, pg |-> page]

Tick(d) == Min(now + d, MaxClock)

\* run, line 37 and the loop's i++
BudgetCheck(t) ==
    IF OverBudget(plan, t, started)
    THEN rpc' = "shot" /\ i' = i
    ELSE rpc' = "loop" /\ i' = NextIndex(i)

\* run, lines 33-37: the step threw e at time t
RunCatch(e, t) ==
    /\ lastError' = [step |-> i, code |-> e.code, cause |-> e.cause]
    /\ failed' = Append(failed, i)
    /\ IF AbortOn(plan) THEN rpc' = "shot" /\ i' = i ELSE BudgetCheck(t)

\* Faulty variant: a step that returns clears the error of an earlier step
MutStepOk(t) ==
    /\ lastError' = NoError
    /\ failed' = failed
    /\ BudgetCheck(t)

\* run, lines 32 and 37: the step returned at time t
StepOk(t) ==
    /\ UNCHANGED <<lastError, failed>>
    /\ BudgetCheck(t)

\* _execute, lines 59-68: _dispatch threw e at time t; rest is what stays in flight
ExecCatch(e, t, rest) ==
    LET err == [code |-> toEyesError(e.code), cause |-> e.cause] IN
    /\ outcomes' = Append(outcomes, err)
    /\ IF ~IsLast(attempt, step)
       THEN \E j \in Jitter :
              IF RequirePageThrows(page)
              THEN /\ inflight' = rest
                   /\ RunCatch([code |-> "INTERNAL", cause |-> "notopen"], t)
              ELSE /\ inflight' = rest \cup {Op("sleep", Backoff(attempt, j))}
                   /\ rpc' = "sleeping"
                   /\ UNCHANGED <<i, lastError, failed>>
       ELSE /\ inflight' = rest
            /\ RunCatch(err, t)

OkOutcome == [code |-> "ok", cause |-> "none"]

----------------------------------------------------------------------------
(* AgentEyes._startFrameStream: the period of the preview timer *)

Max(a, b) == IF a > b THEN a ELSE b

\* Frame rates are counted in tenths of a frame per second (3 per second is 30),
\* so that 1000 / fps is 10000 \div fps.

\* line 458: this.options.frameStream?.fps ?? 3
StreamFps(f) == IF f.given THEN f.tenths ELSE 30

\* Faulty variant: the period is not kept at 200 ms or more
MutPeriod(f) == 10000 \div Min(Max(StreamFps(f), 5), 80)

\* line 459: Math.max(200, Math.floor(1000 / Math.min(Math.max(fps, 0.5), 8)))
Period(f) == Max(200, 10000 \div Min(Max(StreamFps(f), 5), 80))

----------------------------------------------------------------------------
(* Initial state: a constructed session, no run started *)

RunInit ==
    /\ page = "null"
    /\ metrics = [actions |-> 0, errors |-> 0]
    /\ now = 0
    /\ rpc = "idle"
    /\ plan = NoPlan
    /\ started = 0
    /\ i = 0
    /\ step = NoStep
    /\ attempt = 0
    /\ outcomes = <<>>
    /\ sleeps = <<>>
    /\ lastError = NoError
    /\ inflight = {}
    /\ dispatched = {}
    /\ failed = <<>>
    /\ report = NoReport
    /\ thrown = "none"
    /\ closedDuringRun = FALSE

\* constructor, lines 78-79: both buffers empty; no page, so no event stream
RingInit ==
    /\ console = <<>>
    /\ network = <<>>
    /\ consoleSeen = <<>>
    /\ networkSeen = <<>>
    /\ feed = <<>>
    /\ nEvents = 0

NoCall == [action |-> "none", for |-> "none", selector |-> FALSE, text |-> FALSE, url |-> "none"]
NoOpening == [at |-> "idle", bind |-> "none"]
NoLast == [action |-> "none", opened |-> FALSE, engine |-> FALSE,
           code |-> "none", cause |-> "none", delta |-> 0, ret |-> "none"]

\* constructor, lines 71-77: no handles, no timer
SessionInit ==
    /\ browser = "null"
    /\ context = "null"
    /\ frameInterval = FALSE
    /\ opening = NoOpening
    /\ closers = 0
    /\ pending = NoCall
    /\ nCalls = 0
    /\ life = "new"
    /\ closes = 0
    /\ overlap = FALSE
    /\ closeThrew = FALSE
    /\ last = NoLast

NoGuardCall == [called |-> FALSE]

\* constructor, line 65: blockPrivateIPs: true, no allowNavigationTo
GuardInit ==
    /\ options = [allowNavigationTo |-> NoAllow, blockPrivateIPs |-> "true"]
    /\ lastIndex = 0
    /\ gLast = NoGuardCall

\* a quality argument: undefined, a number or a value of another type
NoQuality == [type |-> "undefined", n |-> 0]
NoEncoder == [type |-> "none", quality |-> NoQuality]
NoShot == [at |-> "idle", format |-> "undefined", quality |-> NoQuality,
           encoder |-> NoEncoder, code |-> "none", mime |-> "none"]

\* an optional numeric option: undefined or the number n
NoOpt == [given |-> FALSE, n |-> 0]
NoStab == [at |-> "idle",
           opts |-> [durationMs |-> NoOpt, fps |-> NoOpt, threshold |-> NoOpt],
           durationMs |-> 0, fps |-> 0, threshold |-> 0, period |-> 0,
           elapsed |-> 0, frames |-> 0, k |-> 0, skipped |-> 0,
           diffs |-> [length |-> 0, sum |-> 0, max |-> 0],
           code |-> "none",
           result |-> [stable |-> FALSE, avgDiff |-> 0, maxDiff |-> 0, samples |-> 0]]

\* colours and images: an image either fails to decode or is a raster whose
\* left half has one colour and whose right half has another
Black == [r |-> 0, g |-> 0, b |-> 0]
NoImage == [decodes |-> FALSE, width |-> 0, height |-> 0, left |-> Black, right |-> Black]
NoRatio == [kind |-> "none", diff |-> 0, total |-> 1]
NoCmp == [at |-> "idle", a |-> NoImage, b |-> NoImage, sampleStride |-> 0, resizeWidth |-> 0,
          loadA |-> "none", loadB |-> "none", ready |-> 0, ret |-> NoRatio]
NoHashRet == [kind |-> "none", hex |-> <<>>]
NoHash == [at |-> "idle", img |-> NoImage, load |-> "none", ret |-> NoHashRet,
           prevImg |-> NoImage, prev |-> NoHashRet]
\* a document: elements nested spine deep, the innermost with kids text
\* nodes as children; every text (innerText, nodeValue) is text characters long
NoDoc == [spine |-> 1, kids |-> 0, text |-> 0]
\* the tree being built, by its measures: the depth of its deepest node, the
\* largest children.length and the longest text field
NoTree == [depth |-> 0, children |-> 0, text |-> 0]
NoDom == [at |-> "idle", doc |-> NoDoc, opt |-> NoOpt, maxDepth |-> 0, plaintext |-> FALSE,
          depth |-> 0, next |-> 0, length |-> 0, tree |-> NoTree, code |-> "none"]

\* no getter called yet
NoGot == [call |-> "none", n |-> NoOpt, records |-> <<>>,
          actions |-> 0, errors |-> 0, errorRate |-> [num |-> 0, den |-> 1]]
NoBg == [ticks |-> 0, frames |-> 0, uncaught |-> FALSE, late |-> 0]
NoMulti == [at |-> <<>>, launched |-> 0, timers |-> 0]

NoFps == [given |-> FALSE, tenths |-> 0]

\* constructor, line 65: no frameStream option; no preview timer
FrameInit ==
    /\ fps = NoFps
    /\ period = 0

\* no screenshot() called yet
ToolInit ==
    /\ shot = NoShot
    /\ stab = NoStab
    /\ cmp = NoCmp
    /\ hash = NoHash
    /\ dom = NoDom
    /\ got = NoGot
    /\ bg = NoBg
    /\ multi = NoMulti

Init == RunInit /\ RingInit /\ SessionInit /\ GuardInit /\ FrameInit /\ ToolInit

----------------------------------------------------------------------------
(* AgentEyes.open / close, called by the session's owner *)

\* open(): launches the engine and creates the page (no-op while a browser is held)
Open ==
    /\ page = "null"
    /\ page' = "open"
    /\ UNCHANGED <<metrics, now, inflight, closedDuringRun>>
    /\ UNCHANGED runnerVars
    /\ browser' = "set" /\ context' = "set" /\ frameInterval' = TRUE
    /\ period' = Period(fps) /\ fps' = fps
    /\ UNCHANGED <<ringVars, lifeVars, guardVars, toolVars>>

Rebind(ops, from, to) ==
    {IF o.pg = from THEN [o EXCEPT !.pg = to] ELSE o : o \in ops}

\* close(), up to await Promise.all(tasks): page.close() has been called
CloseBegin ==
    /\ page = "open"
    /\ page' = "closing"
    /\ inflight' = Rebind(inflight, "open", "closing")
    /\ UNCHANGED <<metrics, now, closedDuringRun>>
    /\ UNCHANGED runnerVars
    /\ frameInterval' = FALSE /\ UNCHANGED <<browser, context>>
    /\ period' = 0 /\ fps' = fps
    /\ UNCHANGED <<ringVars, lifeVars, guardVars, toolVars>>

\* close(), after the await: the handles are dropped
CloseEnd ==
    /\ page = "closing"
    /\ page' = "null"
    /\ inflight' = Rebind(inflight, "closing", "closed")
    /\ closedDuringRun' = (closedDuringRun \/ Running)
    /\ UNCHANGED <<metrics, now>>
    /\ UNCHANGED runnerVars
    /\ browser' = "null" /\ context' = "null" /\ frameInterval' = frameInterval
    /\ UNCHANGED <<ringVars, lifeVars, guardVars, utilVars>>

----------------------------------------------------------------------------
(* EyesRunner.run *)

\* run(plan), lines 20-27
Run ==
    /\ rpc = "idle"
    /\ \E p \in PlanSet :
        /\ plan' = p
        /\ IF ValidPlan(p)
           THEN /\ rpc' = "loop"
                /\ started' = now
                /\ thrown' = thrown
           ELSE /\ rpc' = "rejected"
                /\ thrown' = "BAD_INPUT"
                /\ started' = started
    /\ UNCHANGED <<i, step, attempt, outcomes, sleeps, lastError, dispatched, failed, report>>
    /\ UNCHANGED <<page, metrics, now, inflight, closedDuringRun>>
    /\ UNCHANGED auxVars

\* run, lines 29-30: the loop test and const step = plan.steps[i].
\* The plan is immutable and each of its steps is read once, here: the content
\* of step i is drawn when it is read.
LoopStep ==
    /\ rpc = "loop"
    /\ IF i < plan.len
       THEN /\ \E s \in StepsOf(plan) : step' = s
            /\ attempt' = 0
            /\ outcomes' = <<>>
            /\ sleeps' = <<>>
            /\ rpc' = "attempt"
       ELSE /\ rpc' = "shot"
            /\ UNCHANGED <<step, attempt, outcomes, sleeps>>
    /\ UNCHANGED <<plan, started, i, lastError, dispatched, failed, report, thrown>>
    /\ UNCHANGED <<page, metrics, now, inflight, closedDuringRun>>
    /\ UNCHANGED auxVars

\* _execute, line 57: one call of _dispatch, up to its first engine call
DispatchStep ==
    /\ rpc = "attempt"
    /\ dispatched' = dispatched \cup {i}
    /\ LET r == Dispatch(step, page) IN
       CASE r.kind = "throw" ->
              /\ metrics' = CountError(metrics, r.errs)
              /\ ExecCatch(r, now, inflight)
         [] r.kind = "ok" ->
              /\ metrics' = AfterAction(metrics)
              /\ outcomes' = Append(outcomes, OkOutcome)
              /\ inflight' = inflight
              /\ StepOk(now)
         [] OTHER ->
              /\ inflight' = inflight \cup {Op("action", 0)}
              /\ rpc' = "inflight"
              /\ UNCHANGED <<metrics, outcomes, i, lastError, failed>>
    /\ UNCHANGED <<plan, started, step, attempt, sleeps, report, thrown>>
    /\ UNCHANGED <<page, now, closedDuringRun>>
    /\ UNCHANGED auxVars

\* the engine settles the action's call; the action and _execute continue
ActionDone ==
    /\ rpc = "inflight"
    /\ \E o \in inflight, d \in Durations, ok \in BOOLEAN :
        /\ o.kind = "action"
        /\ IF ok THEN EngineMaySucceed(o.pg) ELSE EngineMayFail(step, o.pg)
        /\ now' = Tick(d)
        /\ IF ok
           THEN /\ metrics' = AfterAction(metrics)
                /\ outcomes' = Append(outcomes, OkOutcome)
                /\ inflight' = inflight \ {o}
                /\ StepOk(now')
           ELSE /\ metrics' = CountError(metrics, 1)
                /\ ExecCatch([code |-> EngineFailCode(step), cause |-> "engine"],
                             now', inflight \ {o})
    /\ UNCHANGED <<plan, started, step, attempt, sleeps, dispatched, report, thrown>>
    /\ UNCHANGED <<page, closedDuringRun>>
    /\ UNCHANGED auxVars

\* the backoff's eyes.wait({for:'timeout'}) settles; _execute continues (line 65)
SleepDone ==
    /\ rpc = "sleeping"
    /\ \E o \in inflight, ok \in BOOLEAN :
        /\ o.kind = "sleep"
        /\ inflight' = inflight \ {o}
        /\ IF ok
           THEN /\ EngineMaySucceed(o.pg)
                /\ now' = Tick(o.ms)
                /\ metrics' = AfterAction(metrics)
                /\ sleeps' = Append(sleeps, o.ms)
                /\ attempt' = attempt + 1
                /\ rpc' = "attempt"
                /\ UNCHANGED <<i, lastError, failed>>
           ELSE /\ o.pg # "open"
                /\ now' = now
                /\ metrics' = CountError(metrics, 1)
                /\ RunCatch([code |-> toEyesError("raw"), cause |-> "engine"], now')
                /\ UNCHANGED <<sleeps, attempt>>
    /\ UNCHANGED <<plan, started, step, outcomes, dispatched, report, thrown>>
    /\ UNCHANGED <<page, closedDuringRun>>
    /\ UNCHANGED auxVars

----------------------------------------------------------------------------
(* run, lines 40-45: the artifacts and the report *)

\* _errorInfo: err.code || 'INTERNAL'
errorInfo(e) == IF e.code \in EyesCodes THEN e.code ELSE "INTERNAL"

\* Faulty variant: the report leaves the error field out
MutReturn(r) ==
    /\ report' = [r EXCEPT !.success = (lastError = NoError),
                           !.error = "undefined",
                           !.errorStep = lastError.step]
    /\ rpc' = "done"

\* run, lines 44-45
Return(r) ==
    /\ report' = [r EXCEPT !.success = (lastError = NoError),
                           !.error = IF lastError = NoError THEN "undefined" ELSE errorInfo(lastError),
                           !.errorStep = lastError.step]
    /\ rpc' = "done"

\* line 41: eyes.screenshot(...).catch(() => null), up to the engine call
CollectShot ==
    /\ rpc = "shot"
    /\ IF RequirePageThrows(page)
       THEN /\ report' = [report EXCEPT !.screenshot = "null"]
            /\ rpc' = "dom"
            /\ inflight' = inflight
       ELSE /\ inflight' = inflight \cup {Op("shot", 0)}
            /\ rpc' = "shotwait"
            /\ report' = report
    /\ step' = NoStep /\ attempt' = 0 /\ outcomes' = <<>> /\ sleeps' = <<>>
    /\ UNCHANGED <<plan, started, i, lastError, dispatched, failed, thrown>>
    /\ UNCHANGED <<page, metrics, now, closedDuringRun>>
    /\ UNCHANGED auxVars

\* the engine settles page.screenshot
ShotDone ==
    /\ rpc = "shotwait"
    /\ \E o \in inflight, ok \in BOOLEAN :
        /\ o.kind = "shot"
        /\ inflight' = inflight \ {o}
        /\ IF ok
           THEN /\ EngineMaySucceed(o.pg)
                /\ metrics' = AfterAction(metrics)
                /\ report' = [report EXCEPT !.screenshot = "image"]
           ELSE /\ metrics' = metrics
                /\ report' = [report EXCEPT !.screenshot = "null"]
    /\ rpc' = "dom"
    /\ UNCHANGED <<plan, started, i, step, attempt, outcomes, sleeps, lastError, dispatched, failed, thrown>>
    /\ UNCHANGED <<page, now, closedDuringRun>>
    /\ UNCHANGED auxVars

\* Faulty variant: a failed screenshot ends the collection of the DOM snippet
MutCollectDom ==
    /\ rpc = "dom"
    /\ IF RequirePageThrows(page) \/ report.screenshot = "null"
       THEN /\ report' = report
            /\ rpc' = "state"
            /\ inflight' = inflight
       ELSE /\ inflight' = inflight \cup {Op("dom", 0)}
            /\ rpc' = "domwait"
            /\ report' = report
    /\ UNCHANGED <<plan, started, i, step, attempt, outcomes, sleeps, lastError, dispatched, failed, thrown>>
    /\ UNCHANGED <<page, metrics, now, closedDuringRun>>
    /\ UNCHANGED auxVars

\* line 42: eyes.dom(...).catch(() => null), up to the engine call
CollectDom ==
    /\ rpc = "dom"
    /\ IF RequirePageThrows(page)
       THEN /\ report' = [report EXCEPT !.domSnippet = "null"]
            /\ rpc' = "state"
            /\ inflight' = inflight
       ELSE /\ inflight' = inflight \cup {Op("dom", 0)}
            /\ rpc' = "domwait"
            /\ report' = report
    /\ UNCHANGED <<plan, started, i, step, attempt, outcomes, sleeps, lastError, dispatched, failed, thrown>>
    /\ UNCHANGED <<page, metrics, now, closedDuringRun>>
    /\ UNCHANGED auxVars

\* the engine settles serializeDOM's page.evaluate
DomDone ==
    /\ rpc = "domwait"
    /\ \E o \in inflight, ok \in BOOLEAN :
        /\ o.kind = "dom"
        /\ inflight' = inflight \ {o}
        /\ IF ok
           THEN /\ EngineMaySucceed(o.pg)
                /\ report' = [report EXCEPT !.domSnippet = "tree"]
           ELSE report' = [report EXCEPT !.domSnippet = "null"]
    /\ rpc' = "state"
    /\ UNCHANGED <<plan, started, i, step, attempt, outcomes, sleeps, lastError, dispatched, failed, thrown>>
    /\ UNCHANGED <<page, metrics, now, closedDuringRun>>
    /\ UNCHANGED auxVars

\* line 43: eyes.state().catch(() => ({})), up to page.title(); then lines 44-45
CollectState ==
    /\ rpc = "state"
    /\ IF RequirePageThrows(page)
       THEN /\ Return([report EXCEPT !.lastState = "empty"])
            /\ inflight' = inflight
       ELSE /\ inflight' = inflight \cup {Op("state", 0)}
            /\ rpc' = "statewait"
            /\ report' = report
    /\ UNCHANGED <<plan, started, i, step, attempt, outcomes, sleeps, lastError, dispatched, failed, thrown>>
    /\ UNCHANGED <<page, metrics, now, closedDuringRun>>
    /\ UNCHANGED auxVars

\* page.title() settles (its failure is caught inside state()); lines 44-45
StateDone ==
    /\ rpc = "statewait"
    /\ \E o \in inflight :
        /\ o.kind = "state"
        /\ inflight' = inflight \ {o}
    /\ Return([report EXCEPT !.lastState = "state"])
    /\ UNCHANGED <<plan, started, i, step, attempt, outcomes, sleeps, lastError, dispatched, failed, thrown>>
    /\ UNCHANGED <<page, metrics, now, closedDuringRun>>
    /\ UNCHANGED auxVars

----------------------------------------------------------------------------
(* Specifications *)

RunnerNext ==
    \/ LoopStep
    \/ DispatchStep
    \/ CollectShot
    \/ CollectDom
    \/ CollectState

EngineNext ==
    \/ ActionDone
    \/ SleepDone
    \/ ShotDone
    \/ DomDone
    \/ StateDone

Next ==
    \/ Open
    \/ CloseBegin
    \/ CloseEnd
    \/ Run
    \/ LoopStep
    \/ DispatchStep
    \/ ActionDone
    \/ SleepDone
    \/ CollectShot
    \/ ShotDone
    \/ CollectDom
    \/ DomDone
    \/ CollectState
    \/ StateDone

Spec == Init /\ [][Next]_vars

\* An operation bound to a page whose close has completed is settled by the engine.
SettleClosed == EngineNext /\ (\A o \in inflight : o.pg = "closed")

\* The event loop runs every continuation that is ready, and the engine rejects
\* the calls pending on a closed page; an operation on a live page may hang.
FairSpec == Spec /\ WF_vars(RunnerNext) /\ WF_vars(SettleClosed)

----------------------------------------------------------------------------
(* AgentEyes: the console and network buffers (lines 106-127, 428) *)

\* open, line 109: this._pushRing(this._console, rec, 500)
ConsoleCap == 500
\* open, lines 119 and 125: this._pushRing(this._network, rec, 1000)
NetworkCap == 1000

\* events emitted beyond the larger capacity
Overflow == 2
MaxEvents == NetworkCap + Overflow

\* Faulty variant: the surplus is cut off at the new end of the array
MutpushRing(arr, item, max) ==
    LET a == Append(arr, item) IN
    IF Len(a) > max THEN SubSeq(a, 1, max) ELSE a

\* _pushRing: arr.push(item); if (arr.length > max) arr.splice(0, arr.length - max)
pushRing(arr, item, max) ==
    LET a == Append(arr, item) IN
    IF Len(a) > max THEN SubSeq(a, (Len(a) - max) + 1, Len(a)) ELSE a

\* The event streams of a page: each is a cycle of event kinds, emitted in turn.
EventKinds == {"console", "requestfinished", "requestfailed"}
FeedSet == {<<"console">>, <<"requestfinished">>, <<"requestfailed">>,
            <<"console", "requestfinished">>,
            <<"requestfinished", "requestfailed">>,
            <<"console", "requestfailed", "console">>}

NextKind == feed[(nEvents % Len(feed)) + 1]

\* the record built by a handler: its kind and its arrival number (for ts)
Rec(kind) == [kind |-> kind, n |-> nEvents + 1]

Emits(kind) == feed # <<>> /\ nEvents < MaxEvents /\ NextKind = kind

\* empty buffers; the page emits the events of one feed
RingStart ==
    /\ console = <<>>
    /\ network = <<>>
    /\ consoleSeen = <<>>
    /\ networkSeen = <<>>
    /\ feed \in FeedSet
    /\ nEvents = 0

\* page.on('console', ...), lines 107-111
ConsoleEvent ==
    /\ Emits("console")
    /\ console' = pushRing(console, Rec("console"), ConsoleCap)
    /\ consoleSeen' = Append(consoleSeen, Rec("console"))
    /\ nEvents' = nEvents + 1
    /\ UNCHANGED <<network, networkSeen, feed>>
    /\ UNCHANGED <<runVars, handleVars, lifeVars, guardVars, utilVars>>

\* page.on('requestfinished', ...), lines 114-122: the record is pushed when the
\* response lookup resolves
RequestFinished ==
    /\ Emits("requestfinished")
    /\ network' = pushRing(network, Rec("requestfinished"), NetworkCap)
    /\ networkSeen' = Append(networkSeen, Rec("requestfinished"))
    /\ nEvents' = nEvents + 1
    /\ UNCHANGED <<console, consoleSeen, feed>>
    /\ UNCHANGED <<runVars, handleVars, lifeVars, guardVars, utilVars>>

\* page.on('requestfailed', ...), lines 123-127
RequestFailed ==
    /\ Emits("requestfailed")
    /\ network' = pushRing(network, Rec("requestfailed"), NetworkCap)
    /\ networkSeen' = Append(networkSeen, Rec("requestfailed"))
    /\ nEvents' = nEvents + 1
    /\ UNCHANGED <<console, consoleSeen, feed>>
    /\ UNCHANGED <<runVars, handleVars, lifeVars, guardVars, utilVars>>

RingNext ==
    \/ ConsoleEvent
    \/ RequestFinished
    \/ RequestFailed

\* a constructed session whose page emits the events of one feed
RingSpecInit == RunInit /\ RingStart /\ SessionInit /\ GuardInit /\ FrameInit /\ ToolInit

RingSpec == RingSpecInit /\ [][RingNext]_vars

----------------------------------------------------------------------------
(* AgentEyes used directly: open() and close() step by step, and the         *)
(* primitive actions called by the session's owner, one at a time            *)

\* primitive actions the owner calls, at most (the path of a call depends on
\* the session's handles at the call, not on the calls before it)
MaxCalls == 1
\* close() calls that may await their tasks at the same time
MaxClosers == 2
\* completed close() calls that are counted
MaxCloses == 2

\* The calls the owner may make: the runner's seven actions (click also by
\* text, or with both selector and text), setContent, screenshot, dom and a11y,
\* with the arguments that decide their path.
CallSet ==
    {st \in StepSet : st.action \in Actions}
    \cup {[action |-> "click", for |-> "none", selector |-> s, text |-> TRUE, url |-> "none"] : s \in BOOLEAN}
    \cup {[action |-> "setContent", for |-> "none", selector |-> h, text |-> FALSE, url |-> "none"] : h \in BOOLEAN}
    \cup {[action |-> a, for |-> "none", selector |-> FALSE, text |-> FALSE, url |-> "none"] :
            a \in {"screenshot", "dom", "a11y"}}

\* dom and a11y (lines 399-408) are not instrumented: they call neither
\* _afterAction nor count an error
Counted(st) == st.action \notin {"dom", "a11y"}

\* screenshot, line 376, rethrows without counting; every other instrumented
\* action counts the failure of its engine call in its catch block
EngineFailErrs(st) == IF st.action = "screenshot" \/ ~Counted(st) THEN 0 ELSE 1

\* Faulty variant: the accessibility query is awaited without try/catch
MutSwallows(st) == FALSE

\* a11ySnapshot (artifacts.js lines 59-65): the failure of the engine's query
\* is caught and null is returned
Swallows(st) == st.action = "a11y"

\* what the action resolves to when its engine call has succeeded or failed
Returns(st, ok) ==
    CASE st.action \in {"dom", "a11y"} /\ ok -> "tree"
      [] Swallows(st) /\ ~ok -> "null"
      [] ok -> "value"
      [] OTHER -> "none"

\* Faulty variant: the close of a handle is awaited without .catch
MutCloseTask(ok) == IF ok THEN "fulfilled" ELSE "rejected"

\* close, lines 147-149: <handle>.close().catch(() => {})
CloseTask(ok) == "fulfilled"

\* the engine call open() awaits is bound to the browser it was made on
BindOpening(o, from, to) == IF o.bind = from THEN [o EXCEPT !.bind = to] ELSE o

\* open(), lines 88-96: returns at once while a browser is held, else launches
OpenCall ==
    /\ opening = NoOpening
    /\ IF browser # "null"
       THEN /\ life' = "opened"
            /\ UNCHANGED <<opening, closes, overlap>>
       ELSE /\ opening' = [at |-> "launch", bind |-> "live"]
            /\ life' = "opening"
            /\ closes' = 0
            /\ overlap' = (closers > 0)
    /\ UNCHANGED <<browser, context, frameInterval, closers, pending, nCalls, closeThrew, last>>
    /\ UNCHANGED <<runVars, ringVars, guardVars, utilVars>>

\* open(), line 96-97: chromium.launch settles; this.browser is set and
\* newContext is called
LaunchDone ==
    /\ opening.at = "launch"
    /\ \E ok \in BOOLEAN :
        IF ok
        THEN /\ browser' = "set"
             /\ opening' = [at |-> "newContext", bind |-> "live"]
        ELSE /\ opening' = NoOpening
             /\ browser' = browser
    /\ UNCHANGED <<context, frameInterval, closers, pending, nCalls, life, closes, overlap, closeThrew, last>>
    /\ UNCHANGED <<runVars, ringVars, guardVars, utilVars>>

\* open(), lines 97-99: newContext settles; this.context is set and newPage is
\* called
ContextDone ==
    /\ opening.at = "newContext"
    /\ \E ok \in BOOLEAN :
        IF ok
        THEN /\ EngineMaySucceed(opening.bind)
             /\ context' = "set"
             /\ opening' = [opening EXCEPT !.at = "newPage"]
        ELSE /\ opening' = NoOpening
             /\ context' = context
    /\ UNCHANGED <<browser, frameInterval, closers, pending, nCalls, life, closes, overlap, closeThrew, last>>
    /\ UNCHANGED <<runVars, ringVars, guardVars, utilVars>>

\* open(), lines 99-103: newPage settles; this.page is set and injectCanvasHook
\* is called (canvasHook is on by default)
PageDone ==
    /\ opening.at = "newPage"
    /\ \E ok \in BOOLEAN :
        IF ok
        THEN /\ EngineMaySucceed(opening.bind)
             /\ page' = (IF opening.bind = "closing" THEN "closing" ELSE "open")
             /\ opening' = [opening EXCEPT !.at = "hook"]
        ELSE /\ opening' = NoOpening
             /\ page' = page
    /\ UNCHANGED <<browser, context, frameInterval, closers, pending, nCalls, life, closes, overlap, closeThrew, last>>
    /\ UNCHANGED <<metrics, now, rpc, plan, started, i, step, attempt, outcomes, sleeps,
                   lastError, inflight, dispatched, failed, report, thrown, closedDuringRun>>
    /\ UNCHANGED <<ringVars, guardVars, utilVars>>

\* open(), lines 103-140: injectCanvasHook settles; the handlers are subscribed
\* and _startFrameStream sets the timer (it throws when this.page is null)
HookDone ==
    /\ opening.at = "hook"
    /\ opening' = NoOpening
    /\ \E ok \in BOOLEAN :
        IF ok /\ ~RequirePageThrows(page)
        THEN /\ EngineMaySucceed(opening.bind)
             /\ frameInterval' = TRUE
             /\ period' = Period(fps)
             /\ life' = "opened"
             /\ closes' = 0
        ELSE /\ ok => EngineMaySucceed(opening.bind)
             /\ UNCHANGED <<frameInterval, period, life, closes>>
    /\ UNCHANGED <<browser, context, closers, pending, nCalls, overlap, closeThrew, last>>
    /\ UNCHANGED <<runVars, ringVars, guardVars, fps, toolVars>>

\* close(), lines 144-150: the timer is cleared and every handle held is closed;
\* with no handle held, Promise.all([]) is already fulfilled and line 151 follows
CloseCall ==
    /\ frameInterval' = FALSE
    /\ period' = 0
    /\ overlap' = ((opening # NoOpening) \/ (closers > 0 /\ overlap))
    /\ IF browser = "null" /\ context = "null" /\ page = "null"
       THEN /\ closes' = Min(closes + 1, MaxCloses)
            /\ UNCHANGED <<closers, page, inflight, opening>>
       ELSE /\ closers < MaxClosers
            /\ closers' = closers + 1
            /\ page' = (IF page = "null" THEN "null" ELSE "closing")
            /\ inflight' = Rebind(inflight, "open", "closing")
            /\ opening' = BindOpening(opening, "live", "closing")
            /\ closes' = closes
    /\ UNCHANGED <<browser, context, pending, nCalls, life, closeThrew, last>>
    /\ UNCHANGED <<metrics, now, rpc, plan, started, i, step, attempt, outcomes, sleeps,
                   lastError, dispatched, failed, report, thrown, closedDuringRun>>
    /\ UNCHANGED <<ringVars, guardVars, fps, toolVars>>

\* close(), lines 150-151: the tasks have settled; the handles are dropped
CloseDone ==
    /\ closers > 0
    /\ closers' = closers - 1
    /\ \E ok \in BOOLEAN :
        IF CloseTask(ok) = "fulfilled"
        THEN /\ browser' = "null" /\ context' = "null" /\ page' = "null"
             /\ closes' = Min(closes + 1, MaxCloses)
             /\ closeThrew' = closeThrew
        ELSE /\ closeThrew' = TRUE
             /\ UNCHANGED <<browser, context, page, closes>>
    /\ inflight' = Rebind(inflight, "closing", "closed")
    /\ opening' = BindOpening(opening, "closing", "closed")
    /\ UNCHANGED <<frameInterval, pending, nCalls, life, overlap, last>>
    /\ UNCHANGED <<metrics, now, rpc, plan, started, i, step, attempt, outcomes, sleeps,
                   lastError, dispatched, failed, report, thrown, closedDuringRun>>
    /\ UNCHANGED <<ringVars, guardVars, utilVars>>

\* eyes.<action>(args) called by the owner, up to its first engine call
Invoke ==
    /\ pending = NoCall
    /\ nCalls < MaxCalls
    /\ nCalls' = nCalls + 1
    /\ \E st \in CallSet :
        LET r == SessionCall(st, page)
            called == [action |-> st.action, opened |-> (life = "opened" /\ closes = 0),
                       engine |-> FALSE, code |-> "none", cause |-> "none", delta |-> 0,
                       ret |-> "none"]
        IN CASE r.kind = "throw" ->
                  /\ metrics' = CountError(metrics, r.errs)
                  /\ last' = [called EXCEPT !.code = r.code, !.cause = r.cause, !.delta = r.errs]
                  /\ UNCHANGED <<pending, inflight>>
             [] r.kind = "ok" ->
                  /\ metrics' = AfterAction(metrics)
                  /\ last' = [called EXCEPT !.code = "ok", !.delta = 1, !.ret = "value"]
                  /\ UNCHANGED <<pending, inflight>>
             [] OTHER ->
                  /\ inflight' = inflight \cup {Op("call", 0)}
                  /\ pending' = st
                  /\ last' = [called EXCEPT !.engine = TRUE, !.code = "pending"]
                  /\ metrics' = metrics
    /\ UNCHANGED <<browser, context, frameInterval, opening, closers, life, closes, overlap, closeThrew>>
    /\ UNCHANGED <<page, now, rpc, plan, started, i, step, attempt, outcomes, sleeps,
                   lastError, dispatched, failed, report, thrown, closedDuringRun>>
    /\ UNCHANGED <<ringVars, guardVars, utilVars>>

\* the engine settles the action's call; the action returns or throws
InvokeDone ==
    /\ pending # NoCall
    /\ pending' = NoCall
    /\ \E o \in inflight, ok \in BOOLEAN :
        /\ o.kind = "call"
        /\ IF ok THEN EngineMaySucceed(o.pg) ELSE EngineMayFail(pending, o.pg)
        /\ inflight' = inflight \ {o}
        /\ IF ok \/ Swallows(pending)
           THEN /\ metrics' = (IF Counted(pending) THEN AfterAction(metrics) ELSE metrics)
                /\ last' = [last EXCEPT !.code = "ok",
                                        !.delta = (IF Counted(pending) THEN 1 ELSE 0),
                                        !.ret = Returns(pending, ok)]
           ELSE /\ metrics' = CountError(metrics, EngineFailErrs(pending))
                /\ last' = [last EXCEPT !.code = EngineFailCode(pending), !.cause = "engine",
                                        !.delta = EngineFailErrs(pending)]
    /\ UNCHANGED <<browser, context, frameInterval, opening, closers, nCalls, life, closes, overlap, closeThrew>>
    /\ UNCHANGED <<page, now, rpc, plan, started, i, step, attempt, outcomes, sleeps,
                   lastError, dispatched, failed, report, thrown, closedDuringRun>>
    /\ UNCHANGED <<ringVars, guardVars, utilVars>>

SessionNext ==
    \/ OpenCall
    \/ LaunchDone
    \/ ContextDone
    \/ PageDone
    \/ HookDone
    \/ CloseCall
    \/ CloseDone
    \/ Invoke
    \/ InvokeDone

SessionSpec == Init /\ [][SessionNext]_vars

----------------------------------------------------------------------------
(* guardNavigation called repeatedly *)

\* a session (or a direct caller) with any options
GuardSpecInit ==
    /\ RunInit /\ RingInit /\ SessionInit /\ FrameInit /\ ToolInit
    /\ options \in OptionsSet
    /\ lastIndex = 0
    /\ gLast = NoGuardCall

\* guardNavigation(rawUrl, options) is called
GuardCall ==
    /\ \E raw \in UrlSet :
        LET r == guardNavigation(raw, options, lastIndex)
            c == [called |-> TRUE, raw |-> raw, out |-> r.out, url |-> r.url, li |-> lastIndex]
        IN /\ lastIndex' = r.li
           /\ gLast' = c
    /\ UNCHANGED options
    /\ UNCHANGED <<runVars, ringVars, handleVars, lifeVars, utilVars>>

GuardNext == GuardCall

GuardSpec == GuardSpecInit /\ [][GuardNext]_vars

----------------------------------------------------------------------------
(* The preview timer under every configured frame rate *)

\* options.frameStream.fps as the constructor accepts it (FrameStreamSchema:
\* a positive number, at most 10), or absent
FpsSet == {NoFps} \cup {[given |-> TRUE, tenths |-> t] : t \in 1 .. 100}

\* a constructed session with any frameStream.fps
FrameSpecInit ==
    /\ RunInit /\ RingInit /\ SessionInit /\ GuardInit /\ ToolInit
    /\ fps \in FpsSet
    /\ period = 0

FrameNext ==
    \/ Open
    \/ CloseBegin
    \/ CloseEnd

FrameSpec == FrameSpecInit /\ [][FrameNext]_vars

----------------------------------------------------------------------------
(* AgentEyes.screenshot: the options handed to the encoder (lines 370-380) *)

\* args.format and args.quality as a caller may pass them
FormatSet == {"undefined", "webp", "png"}
QualitySet ==
    {NoQuality, [type |-> "string", n |-> 0]}
    \cup {[type |-> "number", n |-> q] : q \in {0, 1, 60, 70, 100}}

\* line 373: args.format || 'webp'
ShotType(f) == IF f = "undefined" THEN "webp" ELSE f

\* line 374: typeof args.quality === 'number' ? args.quality
\*                                             : (type === 'webp' ? 70 : undefined)
ShotQuality(f, q) ==
    IF q.type = "number" THEN q
    ELSE IF ShotType(f) = "webp" THEN [type |-> "number", n |-> 70]
    ELSE NoQuality

\* line 375
ShotMime(f) == IF ShotType(f) = "png" THEN "image/png" ELSE "image/webp"

\* screenshot(args), lines 371-376: up to page.screenshot({ type, quality, fullPage })
ShotCall ==
    /\ shot.at = "idle"
    /\ \E f \in FormatSet, q \in QualitySet :
        LET call == [NoShot EXCEPT !.format = f, !.quality = q] IN
        IF RequirePageThrows(page)
        THEN shot' = [call EXCEPT !.at = "done", !.code = "INTERNAL"]
        ELSE shot' = [call EXCEPT !.at = "engine", !.code = "pending",
                                  !.encoder = [type |-> ShotType(f), quality |-> ShotQuality(f, q)]]
    /\ UNCHANGED <<runVars, ringVars, handleVars, lifeVars, guardVars, frameVars>>
    /\ UNCHANGED <<stabVars, imageVars, domVars, sideVars>>

\* page.screenshot settles; lines 376-379
ShotSettle ==
    /\ shot.at = "engine"
    /\ \E ok \in BOOLEAN :
        IF ok
        THEN /\ metrics' = AfterAction(metrics)
             /\ shot' = [shot EXCEPT !.at = "done", !.code = "ok", !.mime = ShotMime(shot.format)]
        ELSE /\ metrics' = metrics
             /\ shot' = [shot EXCEPT !.at = "done", !.code = toEyesError("raw")]
    /\ UNCHANGED <<page, now, rpc, plan, started, i, step, attempt, outcomes, sleeps,
                   lastError, inflight, dispatched, failed, report, thrown, closedDuringRun>>
    /\ UNCHANGED <<ringVars, handleVars, lifeVars, guardVars, frameVars>>
    /\ UNCHANGED <<stabVars, imageVars, domVars, sideVars>>

ShotNext ==
    \/ Open
    \/ CloseBegin
    \/ CloseEnd
    \/ ShotCall
    \/ ShotSettle

ShotSpec == Init /\ [][ShotNext]_vars

----------------------------------------------------------------------------
(* AgentEyes.visualStability (lines 475-498)                                *)
(* durationMs in ms, fps in tenths of a frame per second, ratios and the   *)
(* threshold in units of 0.00001.  diffs is kept as its length, its sum    *)
(* and its largest element, which is all that lines 495-497 read of it.    *)

Opt(n) == [given |-> TRUE, n |-> n]

\* o ?? d
OrDefault(o, d) == IF o.given THEN o.n ELSE d

\* Math.min(Math.max(v, lo), hi)
Clamp(v, lo, hi) == Min(Max(v, lo), hi)

\* opts as a caller may pass them: <<durationMs, fps, threshold>>
StabOptSet ==
    {[durationMs |-> o[1], fps |-> o[2], threshold |-> o[3]] : o \in
        {<<NoOpt, NoOpt, NoOpt>>,
         <<Opt(0), Opt(5), Opt(0 - 1)>>,
         <<Opt(299), Opt(200), Opt(100000)>>,
         <<Opt(300), Opt(100), Opt(0)>>,
         <<Opt(600), Opt(101), Opt(2000)>>,
         <<Opt(1000), NoOpt, Opt(2004)>>,
         <<Opt(301), Opt(10), Opt(150000)>>,
         <<Opt(15001), Opt(0), NoOpt>>}}

\* how long one screenshot may take, ms
ShotMsSet == {0, 250}

\* what one comparison of two frames may yield
RatioSet == {0, 2004, 100000}

\* Number(x.toFixed(4)) of the quotient num / den
Fixed4(num, den) == ((2 * num + 10 * den) \div (20 * den)) * 10

\* line 495
Avg4(d) == IF d.length > 0 THEN Fixed4(d.sum, d.length) ELSE 0
MutStable(d, threshold) == d.sum <= threshold
\* line 497: avg <= threshold, avg = sum / length or 0
Stable(d, threshold) == IF d.length > 0 THEN d.sum <= threshold * d.length ELSE 0 <= threshold

\* lines 476-482
StabCall ==
    /\ stab.at = "idle"
    /\ \E o \in StabOptSet :
        IF RequirePageThrows(page)
        THEN stab' = [NoStab EXCEPT !.opts = o, !.at = "done", !.code = "INTERNAL"]
        ELSE LET f == Clamp(OrDefault(o.fps, 30), 10, 100) IN
             stab' = [NoStab EXCEPT !.opts = o, !.at = "loop", !.code = "pending",
                        !.durationMs = Clamp(OrDefault(o.durationMs, 2000), 300, 15000),
                        !.fps = f,
                        !.threshold = Clamp(OrDefault(o.threshold, 2000), 0, 100000),
                        !.period = 10000 \div f]
    /\ UNCHANGED <<runVars, ringVars, handleVars, lifeVars, guardVars, frameVars>>
    /\ UNCHANGED <<shotVars, imageVars, domVars, sideVars>>

\* lines 483-485: the loop test and one screenshotDataURL
StabCapture ==
    /\ stab.at = "loop"
    /\ IF stab.elapsed < stab.durationMs
       THEN IF RequirePageThrows(page)
            THEN /\ stab' = [stab EXCEPT !.at = "done", !.code = "INTERNAL"]
                 /\ metrics' = metrics
            ELSE \E ok \in BOOLEAN, ms \in ShotMsSet :
                 IF ok
                 THEN /\ stab' = [stab EXCEPT !.at = "wait", !.frames = @ + 1,
                                              !.elapsed = @ + ms]
                      /\ metrics' = AfterAction(metrics)
                 ELSE /\ stab' = [stab EXCEPT !.at = "done", !.code = toEyesError("raw")]
                      /\ metrics' = metrics
       ELSE /\ stab' = [stab EXCEPT !.at = "diff", !.k = 1]
            /\ metrics' = metrics
    /\ UNCHANGED <<page, now, rpc, plan, started, i, step, attempt, outcomes, sleeps,
                   lastError, inflight, dispatched, failed, report, thrown, closedDuringRun>>
    /\ UNCHANGED <<ringVars, handleVars, lifeVars, guardVars, frameVars>>
    /\ UNCHANGED <<shotVars, imageVars, domVars, sideVars>>

\* line 486: page.waitForTimeout(period)
StabWait ==
    /\ stab.at = "wait"
    /\ \E ok \in BOOLEAN :
        IF ok
        THEN stab' = [stab EXCEPT !.at = "loop", !.elapsed = @ + stab.period]
        ELSE stab' = [stab EXCEPT !.at = "done", !.code = "raw"]
    /\ UNCHANGED <<runVars, ringVars, handleVars, lifeVars, guardVars, frameVars>>
    /\ UNCHANGED <<shotVars, imageVars, domVars, sideVars>>

\* lines 489-494: one pass of the comparison loop; a comparison that throws
\* is dropped
StabDiff ==
    /\ stab.at = "diff"
    /\ stab.k < stab.frames
    /\ \/ \E ratio \in RatioSet :
            stab' = [stab EXCEPT !.k = @ + 1,
                                 !.diffs = [length |-> @.length + 1,
                                            sum |-> @.sum + ratio,
                                            max |-> Max(@.max, ratio)]]
       \/ stab' = [stab EXCEPT !.k = @ + 1, !.skipped = @ + 1]
    /\ UNCHANGED <<runVars, ringVars, handleVars, lifeVars, guardVars, frameVars>>
    /\ UNCHANGED <<shotVars, imageVars, domVars, sideVars>>

\* lines 495-497
StabReturn ==
    /\ stab.at = "diff"
    /\ stab.k >= stab.frames
    /\ stab' = [stab EXCEPT !.at = "done", !.code = "ok",
                            !.result = [stable |-> Stable(stab.diffs, stab.threshold),
                                        avgDiff |-> Avg4(stab.diffs),
                                        maxDiff |-> Fixed4(stab.diffs.max, 1),
                                        samples |-> stab.diffs.length]]
    /\ UNCHANGED <<runVars, ringVars, handleVars, lifeVars, guardVars, frameVars>>
    /\ UNCHANGED <<shotVars, imageVars, domVars, sideVars>>

StabNext ==
    \/ Open
    \/ CloseBegin
    \/ CloseEnd
    \/ StabCall
    \/ StabCapture
    \/ StabWait
    \/ StabDiff
    \/ StabReturn

StabSpec == Init /\ [][StabNext]_vars

----------------------------------------------------------------------------
(* artifacts.js: diffDataURLs (lines 83-120) and aHashDataURL (127-155)     *)
(* The page decodes an image, fires its load or its error event, and       *)
(* scales it onto a canvas; a ratio is kept as the pair diff / total.      *)

White == [r |-> 255, g |-> 255, b |-> 255]
Dark == [r |-> 10, g |-> 10, b |-> 10]
Red == [r |-> 255, g |-> 0, b |-> 0]

Solid(c, w, h) == [decodes |-> TRUE, width |-> w, height |-> h, left |-> c, right |-> c]
Halves(l, r, w, h) == [decodes |-> TRUE, width |-> w, height |-> h, left |-> l, right |-> r]

\* the data URLs a caller may pass; widths are powers of two, for which the
\* quotient of line 93 is exact
ImageSet ==
    {NoImage,
     Solid(Black, 8, 8), Solid(White, 8, 8), Solid(Dark, 64, 32), Solid(Red, 16, 64),
     Halves(Black, White, 8, 8), Halves(White, Black, 64, 32), Halves(Dark, Red, 16, 64)}

\* g.drawImage(img, 0, 0, w, h) then getImageData: the colour at column x
\* of a canvas w wide (every row is the same)
CanvasAt(img, x, w) == IF 2 * x < w THEN img.left ELSE img.right

Abs(n) == IF n < 0 THEN 0 - n ELSE n

\* lines 105-109
Changed(p, q) == Abs(p.r - q.r) + Abs(p.g - q.g) + Abs(p.b - q.b) > 30

\* the values 0, stride, 2 * stride, ... below n: the loop headers of
\* lines 102-103
Sampled(n, stride) == {v \in 0 .. n - 1 : v % stride = 0}

\* lines 92-113, both images loaded
DiffRatio(a, b, sampleStride, resizeWidth) ==
    LET w == resizeWidth
        h == Max(32, (a.height * w) \div a.width)
        ys == Sampled(h, sampleStride)
        xs == Sampled(w, sampleStride)
        diff == Cardinality(ys) *
                Cardinality({x \in xs : Changed(CanvasAt(a, x, w), CanvasAt(b, x, w))})
        total == Cardinality(ys) * Cardinality(xs)
    IN  IF total # 0
        THEN [kind |-> "ratio", diff |-> diff, total |-> total]
        ELSE [kind |-> "ratio", diff |-> 0, total |-> 1]

\* opts as a caller may pass them: <<sampleStride, resizeWidth>>
DiffOptSet ==
    {[sampleStride |-> o[1], resizeWidth |-> o[2]] : o \in
        {<<NoOpt, NoOpt>>, <<Opt(0), Opt(0)>>, <<Opt(3), Opt(33)>>, <<Opt(3), Opt(256)>>}}

\* lines 84-89 and 115-116: the handlers are set and the two loads started
DiffCall ==
    /\ cmp.at = "idle"
    /\ \E a \in ImageSet, b \in ImageSet, o \in DiffOptSet :
        cmp' = [NoCmp EXCEPT !.at = "loading", !.a = a, !.b = b,
                             !.sampleStride = Max(1, OrDefault(o.sampleStride, 2)),
                             !.resizeWidth = Max(32, OrDefault(o.resizeWidth, 256)),
                             !.loadA = "pending", !.loadB = "pending"]
    /\ UNCHANGED <<runVars, ringVars, handleVars, lifeVars, guardVars, frameVars>>
    /\ UNCHANGED <<shotVars, stabVars, hash, domVars, sideVars>>

\* the load event fires for an image that decodes; for one that does not the
\* page fires the error event, for which lines 115-116 set no handler
Fires(img) == img.decodes

\* one of the two loads settles; done (lines 90-114) runs on a load event
DiffSettle(which) ==
    /\ cmp.at = "loading"
    /\ (IF which = "a" THEN cmp.loadA ELSE cmp.loadB) = "pending"
    /\ LET img == IF which = "a" THEN cmp.a ELSE cmp.b
           outcome == IF img.decodes THEN "loaded" ELSE "failed"
           c == IF which = "a" THEN [cmp EXCEPT !.loadA = outcome]
                                ELSE [cmp EXCEPT !.loadB = outcome]
       IN  IF Fires(img)
           THEN IF cmp.ready + 1 < 2
                THEN cmp' = [c EXCEPT !.ready = @ + 1]
                ELSE cmp' = [c EXCEPT !.ready = @ + 1, !.at = "done",
                                      !.ret = DiffRatio(cmp.a, cmp.b, cmp.sampleStride,
                                                        cmp.resizeWidth)]
           ELSE cmp' = c
    /\ UNCHANGED <<runVars, ringVars, handleVars, lifeVars, guardVars, frameVars>>
    /\ UNCHANGED <<shotVars, stabVars, hash, domVars, sideVars>>

\* line 86: page.evaluate rejects (the page went away); diffDataURLs throws
DiffReject ==
    /\ cmp.at = "loading"
    /\ cmp' = [cmp EXCEPT !.at = "done", !.ret = [NoRatio EXCEPT !.kind = "threw"]]
    /\ UNCHANGED <<runVars, ringVars, handleVars, lifeVars, guardVars, frameVars>>
    /\ UNCHANGED <<shotVars, stabVars, hash, domVars, sideVars>>

DiffNext ==
    \/ DiffCall
    \/ DiffSettle("a")
    \/ DiffSettle("b")
    \/ DiffReject

DiffSpec == Init /\ [][DiffNext]_vars

\* line 140, in thousandths: 0.299 * r + 0.587 * g + 0.114 * b
Luma(c) == 299 * c.r + 587 * c.g + 114 * c.b

\* Number.prototype.toString(16) of 0 .. 15
HexChars == <<"0", "1", "2", "3", "4", "5", "6", "7",
               "8", "9", "a", "b", "c", "d", "e", "f">>

\* lines 132-149: the image drawn on a canvas of 8 by 8, its 64 bits in
\* raster order (bit = 1 iff the pixel's luma >= the mean luma), four bits
\* to a hexadecimal digit
aHash(img) ==
    LET w == 8
        h == 8
        gray == [j \in 1 .. w * h |-> Luma(CanvasAt(img, (j - 1) % w, w))]
        Sum[j \in 0 .. w * h] == IF j = 0 THEN 0 ELSE Sum[j - 1] + gray[j]
        bits == [k \in 1 .. w * h |-> IF gray[k] * (w * h) >= Sum[w * h] THEN 1 ELSE 0]
        nibble(n) == 8 * bits[4 * n + 1] + 4 * bits[4 * n + 2]
                     + 2 * bits[4 * n + 3] + bits[4 * n + 4]
    IN  [n \in 1 .. 16 |-> HexChars[nibble(n - 1) + 1]]

\* lines 128-131 and 151: the handler is set and the load started; the model
\* keeps the call before it to compare the two results
HashCall ==
    /\ hash.at = "idle" \/ (hash.at = "done" /\ hash.prev.kind = "none")
    /\ \E img \in ImageSet :
        hash' = [at |-> "loading", img |-> img, load |-> "pending", ret |-> NoHashRet,
                 prevImg |-> hash.img, prev |-> hash.ret]
    /\ UNCHANGED <<runVars, ringVars, handleVars, lifeVars, guardVars, frameVars>>
    /\ UNCHANGED <<shotVars, stabVars, cmp, domVars, sideVars>>

\* the load settles; lines 131-150 run on the load event, nothing runs on
\* the error event
HashSettle ==
    /\ hash.at = "loading"
    /\ hash.load = "pending"
    /\ IF Fires(hash.img)
       THEN hash' = [hash EXCEPT !.at = "done", !.load = "loaded",
                                 !.ret = [kind |-> "hex", hex |-> aHash(hash.img)]]
       ELSE hash' = [hash EXCEPT !.load = "failed"]
    /\ UNCHANGED <<runVars, ringVars, handleVars, lifeVars, guardVars, frameVars>>
    /\ UNCHANGED <<shotVars, stabVars, cmp, domVars, sideVars>>

\* line 128: page.evaluate rejects; aHashDataURL throws
HashReject ==
    /\ hash.at = "loading"
    /\ hash' = [hash EXCEPT !.at = "done", !.ret = [NoHashRet EXCEPT !.kind = "threw"]]
    /\ UNCHANGED <<runVars, ringVars, handleVars, lifeVars, guardVars, frameVars>>
    /\ UNCHANGED <<shotVars, stabVars, cmp, domVars, sideVars>>

HashNext ==
    \/ HashCall
    \/ HashSettle
    \/ HashReject

HashSpec == Init /\ [][HashNext]_vars

----------------------------------------------------------------------------
(* artifacts.js: serializeDOM (lines 18-52)                                 *)

DocSet ==
    {[spine |-> d[1], kids |-> d[2], text |-> d[3]] : d \in
        {<<1, 0, 0>>, <<2, 3, 1999>>, <<3, 1000, 2000>>, <<1, 1001, 2001>>,
         <<2, 1002, 5000>>, <<12, 2, 10>>}}

\* opts.maxDepth as a caller may pass it
MaxDepthSet == {NoOpt, Opt(0), Opt(1), Opt(3), Opt(10), Opt(11)}

\* String.prototype.slice(0, 2000), by length
Slice2000(len) == Min(len, 2000)

\* lines 19-21 and 50: the options are normalised and nodeInfo is called on
\* the root element with depth 1
DomCall ==
    /\ dom.at = "idle"
    /\ \E doc \in DocSet, o \in MaxDepthSet, pt \in BOOLEAN :
        dom' = [NoDom EXCEPT !.at = "node", !.doc = doc, !.opt = o, !.plaintext = pt,
                             !.maxDepth = Clamp(OrDefault(o, 4), 1, 10),
                             !.depth = 1, !.code = "pending"]
    /\ UNCHANGED <<runVars, ringVars, handleVars, lifeVars, guardVars, frameVars>>
    /\ UNCHANGED <<shotVars, stabVars, imageVars, sideVars>>

\* nodeInfo(n, depth) for an element, lines 32-41: the node is refused below
\* maxDepth; otherwise it gets its text in plaintext mode, and its children
\* are visited if depth < maxDepth
DomElement ==
    /\ dom.at = "node"
    /\ IF dom.depth > dom.maxDepth
       THEN dom' = [dom EXCEPT !.at = "done", !.code = "ok"]
       ELSE LET t == [dom.tree EXCEPT
                        !.depth = Max(@, dom.depth),
                        !.text = IF dom.plaintext THEN Max(@, Slice2000(dom.doc.text)) ELSE @]
            IN  IF dom.depth < dom.maxDepth
                THEN IF dom.depth < dom.doc.spine
                     THEN \* the only child is the next element
                          dom' = [dom EXCEPT !.depth = @ + 1,
                                             !.tree = [t EXCEPT !.children = Max(@, 1)]]
                     ELSE dom' = [dom EXCEPT !.at = "children", !.next = 0, !.length = 0,
                                             !.tree = t]
                ELSE dom' = [dom EXCEPT !.at = "done", !.code = "ok", !.tree = t]
    /\ UNCHANGED <<runVars, ringVars, handleVars, lifeVars, guardVars, frameVars>>
    /\ UNCHANGED <<shotVars, stabVars, imageVars, sideVars>>

\* line 45, read after the push of line 44
Full(length) == length > 1000

\* lines 42-46: one pass of the loop over the child nodes of the innermost
\* element (text nodes, which carry their text unless in plaintext mode)
DomChild ==
    /\ dom.at = "children"
    /\ IF dom.next < dom.doc.kids
       THEN LET len == dom.length + 1
                t == [dom.tree EXCEPT
                        !.depth = Max(@, dom.depth + 1),
                        !.children = Max(@, len),
                        !.text = IF dom.plaintext THEN @ ELSE Max(@, Slice2000(dom.doc.text))]
            IN  IF Full(len)
                THEN dom' = [dom EXCEPT !.at = "done", !.code = "ok", !.length = len, !.tree = t]
                ELSE dom' = [dom EXCEPT !.next = @ + 1, !.length = len, !.tree = t]
       ELSE dom' = [dom EXCEPT !.at = "done", !.code = "ok"]
    /\ UNCHANGED <<runVars, ringVars, handleVars, lifeVars, guardVars, frameVars>>
    /\ UNCHANGED <<shotVars, stabVars, imageVars, sideVars>>

\* line 21: page.evaluate rejects; serializeDOM throws
DomReject ==
    /\ dom.at \in {"node", "children"}
    /\ dom' = [dom EXCEPT !.at = "done", !.code = "raw", !.tree = NoTree]
    /\ UNCHANGED <<runVars, ringVars, handleVars, lifeVars, guardVars, frameVars>>
    /\ UNCHANGED <<shotVars, stabVars, imageVars, sideVars>>

DomNext ==
    \/ DomCall
    \/ DomElement
    \/ DomChild
    \/ DomReject

DomSpec == Init /\ [][DomNext]_vars

----------------------------------------------------------------------------
(* AgentEyes.getConsole / getNetwork (lines 411-413)                        *)

\* records held by each buffer when the getters are called
MaxHeld == 3

\* the buffers after k console events followed by m failed requests, the page
\* then being quiet
ReadStart ==
    \E k \in 0 .. MaxHeld, m \in 0 .. MaxHeld :
        /\ console = [j \in 1 .. k |-> [kind |-> "console", n |-> j]]
        /\ network = [j \in 1 .. m |-> [kind |-> "requestfailed", n |-> k + j]]
        /\ consoleSeen = console
        /\ networkSeen = network
        /\ feed = <<>>
        /\ nEvents = k + m

\* the argument n as a caller may pass it
ReadArgSet == {NoOpt} \cup {Opt(n) : n \in 0 .. MaxHeld + 1}

\* arr.slice(-n): -0 is 0, so for n = 0 the slice starts at index 0; for
\* n > 0 it starts n from the end, or at index 0 if the array is shorter
SliceLast(arr, n) ==
    IF n = 0 THEN arr
    ELSE SubSeq(arr, Max(Len(arr) - n, 0) + 1, Len(arr))

\* getConsole(n = 100)
GetConsole ==
    /\ \E a \in ReadArgSet :
        got' = [NoGot EXCEPT !.call = "getConsole", !.n = a,
                             !.records = SliceLast(console, OrDefault(a, 100))]
    /\ UNCHANGED <<runVars, ringVars, handleVars, lifeVars, guardVars, frameVars>>
    /\ UNCHANGED <<shotVars, stabVars, imageVars, domVars, backVars, multiVars>>

\* getNetwork(n = 200)
GetNetwork ==
    /\ \E a \in ReadArgSet :
        got' = [NoGot EXCEPT !.call = "getNetwork", !.n = a,
                             !.records = SliceLast(network, OrDefault(a, 200))]
    /\ UNCHANGED <<runVars, ringVars, handleVars, lifeVars, guardVars, frameVars>>
    /\ UNCHANGED <<shotVars, stabVars, imageVars, domVars, backVars, multiVars>>

ReadNext ==
    \/ GetConsole
    \/ GetNetwork

ReadSpecInit == RunInit /\ ReadStart /\ SessionInit /\ GuardInit /\ FrameInit /\ ToolInit

ReadSpec == ReadSpecInit /\ [][ReadNext]_vars

----------------------------------------------------------------------------
(* AgentEyes.metrics (lines 419-423), called between the steps of open(),   *)
(* close() and the primitive actions                                        *)

\* line 421: actions ? errors / actions : 0, as a fraction
errorRate(m) ==
    IF m.actions # 0 THEN [num |-> m.errors, den |-> m.actions]
    ELSE [num |-> 0, den |-> 1]

\* metrics(); the model keeps _metrics.errors as read by the call beside the
\* returned actions and errorRate
MetricsCall ==
    /\ got' = [NoGot EXCEPT !.call = "metrics", !.actions = metrics.actions,
                            !.errors = metrics.errors, !.errorRate = errorRate(metrics)]
    /\ UNCHANGED <<runVars, ringVars, handleVars, lifeVars, guardVars, frameVars>>
    /\ UNCHANGED <<shotVars, stabVars, imageVars, domVars, backVars, multiVars>>

MeterNext ==
    \/ SessionNext
    \/ MetricsCall

MeterSpec == Init /\ [][MeterNext]_vars

----------------------------------------------------------------------------
(* open() called again while earlier open() calls are still in progress, with
   no close(): multi.at[k] is the engine call that the k-th call awaits *)

MaxOpeners == 3

\* open(), lines 88-96: returns at once while a browser is held, else launches
OverlapOpen ==
    /\ Len(multi.at) < MaxOpeners
    /\ multi' = [multi EXCEPT !.at = Append(@, IF browser # "null" THEN "returned" ELSE "launch")]
    /\ UNCHANGED <<runVars, ringVars, handleVars, lifeVars, guardVars, frameVars>>
    /\ UNCHANGED <<shotVars, stabVars, imageVars, domVars, getVars, backVars>>

\* open(), line 96-97: chromium.launch of the k-th call settles; a browser is
\* running and this.browser is assigned
OverlapLaunchDone(k) ==
    /\ multi.at[k] = "launch"
    /\ \E ok \in BOOLEAN :
        IF ok
        THEN /\ browser' = "set"
             /\ multi' = [multi EXCEPT !.at[k] = "newContext", !.launched = @ + 1]
        ELSE /\ browser' = browser
             /\ multi' = [multi EXCEPT !.at[k] = "threw"]
    /\ UNCHANGED <<context, frameInterval>>
    /\ UNCHANGED <<runVars, ringVars, lifeVars, guardVars, frameVars>>
    /\ UNCHANGED <<shotVars, stabVars, imageVars, domVars, getVars, backVars>>

\* open(), lines 97-99: newContext of the k-th call settles
OverlapContextDone(k) ==
    /\ multi.at[k] = "newContext"
    /\ \E ok \in BOOLEAN :
        IF ok
        THEN /\ context' = "set"
             /\ multi' = [multi EXCEPT !.at[k] = "newPage"]
        ELSE /\ context' = context
             /\ multi' = [multi EXCEPT !.at[k] = "threw"]
    /\ UNCHANGED <<browser, frameInterval>>
    /\ UNCHANGED <<runVars, ringVars, lifeVars, guardVars, frameVars>>
    /\ UNCHANGED <<shotVars, stabVars, imageVars, domVars, getVars, backVars>>

\* open(), lines 99-103: newPage of the k-th call settles
OverlapPageDone(k) ==
    /\ multi.at[k] = "newPage"
    /\ \E ok \in BOOLEAN :
        IF ok
        THEN /\ page' = "open"
             /\ multi' = [multi EXCEPT !.at[k] = "hook"]
        ELSE /\ page' = page
             /\ multi' = [multi EXCEPT !.at[k] = "threw"]
    /\ UNCHANGED <<metrics, now, rpc, plan, started, i, step, attempt, outcomes, sleeps,
                   lastError, inflight, dispatched, failed, report, thrown, closedDuringRun>>
    /\ UNCHANGED <<ringVars, handleVars, lifeVars, guardVars, frameVars>>
    /\ UNCHANGED <<shotVars, stabVars, imageVars, domVars, getVars, backVars>>

\* open(), lines 103-140 and _startFrameStream, lines 456-468: injectCanvasHook
\* of the k-th call settles; the handlers are subscribed and setInterval
\* starts one more timer, whose handle replaces the one held in _frameInterval
OverlapHookDone(k) ==
    /\ multi.at[k] = "hook"
    /\ \E ok \in BOOLEAN :
        IF ok /\ ~RequirePageThrows(page)
        THEN /\ frameInterval' = TRUE
             /\ period' = Period(fps)
             /\ multi' = [multi EXCEPT !.at[k] = "returned", !.timers = @ + 1]
        ELSE /\ multi' = [multi EXCEPT !.at[k] = "threw"]
             /\ UNCHANGED <<frameInterval, period>>
    /\ UNCHANGED <<browser, context, fps>>
    /\ UNCHANGED <<runVars, ringVars, lifeVars, guardVars>>
    /\ UNCHANGED <<shotVars, stabVars, imageVars, domVars, getVars, backVars>>

OverlapNext ==
    \/ OverlapOpen
    \/ \E k \in 1 .. Len(multi.at) : OverlapLaunchDone(k)
    \/ \E k \in 1 .. Len(multi.at) : OverlapContextDone(k)
    \/ \E k \in 1 .. Len(multi.at) : OverlapPageDone(k)
    \/ \E k \in 1 .. Len(multi.at) : OverlapHookDone(k)

OverlapSpec == Init /\ [][OverlapNext]_vars

----------------------------------------------------------------------------
(* The background activities of an open session: the preview-frame timer
   (_startFrameStream, lines 456-468) and the page's console and network
   handlers (open, lines 106-127), interleaved with open(), close() and
   screenshot().  A capture or a response lookup is an engine operation in
   flight, numbered by the tick or the event that issued it. *)

MaxTicks == 1
MaxPageEvents == 1

\* Faulty variant: a failed capture is rethrown out of the timer callback
MutFrameOutcome(ok) == IF ok THEN "frame" ELSE "thrown"

\* try { const buf = await page.screenshot(...); this.emit('frame', ...) } catch (_) {}
FrameOutcome(ok) == IF ok THEN "frame" ELSE "ignored"

\* Faulty variant: the record is pushed whether or not the lookup resolved
MutLookupOutcome(ok) == "record"

\* req.response()?.then((res) => { push, emit }).catch(() => {})
LookupOutcome(ok) == IF ok THEN "record" ELSE "ignored"

\* a callback resumed on a session whose close() has completed
Late == IF page = "null" THEN 1 ELSE 0

\* the timer fires, lines 460-463: nothing without a page, else a capture starts
FrameTick ==
    /\ frameInterval
    /\ bg.ticks < MaxTicks
    /\ bg' = [bg EXCEPT !.ticks = @ + 1]
    /\ inflight' = IF page = "null" THEN inflight ELSE inflight \cup {Op("frame", bg.ticks + 1)}
    /\ UNCHANGED <<page, metrics, now, rpc, plan, started, i, step, attempt, outcomes, sleeps,
                   lastError, dispatched, failed, report, thrown, closedDuringRun>>
    /\ UNCHANGED <<ringVars, handleVars, lifeVars, guardVars, frameVars>>
    /\ UNCHANGED <<shotVars, stabVars, imageVars, domVars, getVars, multiVars>>

\* the capture settles, lines 463-465: a frame is emitted or the error dropped
FrameSettle ==
    /\ \E o \in inflight, ok \in BOOLEAN :
        /\ o.kind = "frame"
        /\ ok => EngineMaySucceed(o.pg)
        /\ inflight' = inflight \ {o}
        /\ bg' = [bg EXCEPT !.frames = IF FrameOutcome(ok) = "frame" THEN @ + 1 ELSE @,
                            !.uncaught = @ \/ FrameOutcome(ok) = "thrown",
                            !.late = @ + Late]
    /\ UNCHANGED <<page, metrics, now, rpc, plan, started, i, step, attempt, outcomes, sleeps,
                   lastError, dispatched, failed, report, thrown, closedDuringRun>>
    /\ UNCHANGED <<ringVars, handleVars, lifeVars, guardVars, frameVars>>
    /\ UNCHANGED <<shotVars, stabVars, imageVars, domVars, getVars, multiVars>>

\* the page of the session, not yet closed, delivers an event to its handler
Delivers == page # "null" /\ nEvents < MaxPageEvents

\* page.on('console', ...), lines 107-111
OnConsole ==
    /\ Delivers
    /\ console' = pushRing(console, Rec("console"), ConsoleCap)
    /\ consoleSeen' = Append(consoleSeen, Rec("console"))
    /\ nEvents' = nEvents + 1
    /\ UNCHANGED <<network, networkSeen, feed>>
    /\ UNCHANGED <<runVars, handleVars, lifeVars, guardVars, utilVars>>

\* page.on('requestfailed', ...), lines 123-127
OnRequestFailed ==
    /\ Delivers
    /\ network' = pushRing(network, Rec("requestfailed"), NetworkCap)
    /\ networkSeen' = Append(networkSeen, Rec("requestfailed"))
    /\ nEvents' = nEvents + 1
    /\ UNCHANGED <<console, consoleSeen, feed>>
    /\ UNCHANGED <<runVars, handleVars, lifeVars, guardVars, utilVars>>

\* page.on('requestfinished', ...), lines 114-117: req.response() is called
OnRequestFinished ==
    /\ Delivers
    /\ nEvents' = nEvents + 1
    /\ inflight' = inflight \cup {Op("lookup", nEvents + 1)}
    /\ UNCHANGED <<console, network, consoleSeen, networkSeen, feed>>
    /\ UNCHANGED <<page, metrics, now, rpc, plan, started, i, step, attempt, outcomes, sleeps,
                   lastError, dispatched, failed, report, thrown, closedDuringRun>>
    /\ UNCHANGED <<handleVars, lifeVars, guardVars, utilVars>>

\* req.response() settles, lines 117-121: the record is pushed or the error dropped
LookupSettle ==
    /\ \E o \in inflight, ok \in BOOLEAN :
        LET rec == [kind |-> "requestfinished", n |-> o.ms] IN
        /\ o.kind = "lookup"
        /\ ok => EngineMaySucceed(o.pg)
        /\ inflight' = inflight \ {o}
        /\ bg' = [bg EXCEPT !.late = @ + Late]
        /\ IF LookupOutcome(ok) = "record"
           THEN /\ network' = pushRing(network, rec, NetworkCap)
                /\ networkSeen' = Append(networkSeen, rec)
           ELSE UNCHANGED <<network, networkSeen>>
    /\ UNCHANGED <<console, consoleSeen, feed, nEvents>>
    /\ UNCHANGED <<page, metrics, now, rpc, plan, started, i, step, attempt, outcomes, sleeps,
                   lastError, dispatched, failed, report, thrown, closedDuringRun>>
    /\ UNCHANGED <<handleVars, lifeVars, guardVars, frameVars>>
    /\ UNCHANGED <<shotVars, stabVars, imageVars, domVars, getVars, multiVars>>

Background ==
    \/ FrameTick
    \/ FrameSettle
    \/ OnConsole
    \/ OnRequestFailed
    \/ OnRequestFinished
    \/ LookupSettle

BackNext ==
    \/ ShotNext
    \/ Background

BackSpec == Init /\ [][BackNext]_vars

----------------------------------------------------------------------------
(* Properties *)

IsFragileStep(st) == st.action = "click" \/ (st.action = "wait" /\ st.for = "selector")

\* number of _dispatch calls made so far for the current step
Dispatches == Len(outcomes) + (IF rpc = "inflight" THEN 1 ELSE 0)

\* the loop is between two steps, or has just been left: `step` has finished
StepFinished == rpc \in {"loop", "shot"} /\ step # NoStep

\* index of the step that has finished
FinishedIndex == IF rpc = "loop" THEN i - 1 ELSE i

SeqRange(q) == {q[k] : k \in 1..Len(q)}

\* C1: a step is dispatched at most 3 times when it is a click or a
\* wait-for-selector and exactly once otherwise; an attempt follows only failed
\* attempts, so a success is always the step's last attempt.
C1_AttemptLimit ==
    /\ Dispatches <= (IF IsFragileStep(step) THEN 3 ELSE 1)
    /\ \A k \in 1..(Dispatches - 1) : outcomes[k].code # "ok"
    /\ (StepFinished /\ ~IsFragileStep(step)) => Len(outcomes) = 1
    /\ StepFinished => Len(outcomes) >= 1

C1_Witness ==
    /\ rpc = "loop"
    /\ IsFragileStep(step)
    /\ Len(outcomes) = 2
    /\ outcomes[1].code # "ok"
    /\ outcomes[2].code = "ok"

\* C2: an attempt that fails argument validation is the only attempt of its
\* step, is followed by no backoff sleep, and its error code is BAD_INPUT.
C2_BadInputNotRetried ==
    \A k \in 1..Len(outcomes) :
        outcomes[k].cause = "validation" =>
            /\ Len(outcomes) = 1
            /\ rpc # "sleeping"
            /\ sleeps = <<>>
            /\ outcomes[k].code = "BAD_INPUT"

\* C3 (as stated): run never rejects, whatever the plan.
C3_NeverThrows == thrown = "none"

\* C3 (amended): run rejects only a plan without a steps array or with more
\* than 50 steps, and then with BAD_INPUT; for every other plan it returns a
\* report in which success is false exactly when a step failed, and in that case
\* the error field holds one of the stable codes.
C3_ThrowsOnlyOnRejectedPlan ==
    /\ thrown \in {"none", "BAD_INPUT"}
    /\ thrown # "none" => (~plan.hasSteps \/ plan.len > 50)
    /\ Running \/ rpc = "done" => thrown = "none"
    /\ rpc = "done" =>
        /\ report.success = (failed = <<>>)
        /\ failed # <<>> => report.error \in EyesCodes
        /\ failed = <<>> => report.error = "undefined"

C3_Witness ==
    /\ rpc = "done"
    /\ ~report.success
    /\ report.error = "ELEMENT_NOT_FOUND"
    /\ report.screenshot = "null"

\* C4: a plan without a steps array or with more than 50 steps is rejected with
\* BAD_INPUT before anything runs: nothing is dispatched, nothing is in flight,
\* no artifact is collected and the rejecting call leaves the session (page,
\* metrics, clock) untouched; a plan of up to 50 steps, 50 included, is accepted.
C4_RejectedBeforeExecution ==
    /\ [](/\ rpc = "rejected" =>
               /\ ~plan.hasSteps \/ plan.len > 50
               /\ thrown = "BAD_INPUT"
               /\ dispatched = {} /\ failed = <<>> /\ inflight = {}
               /\ report = NoReport
          /\ (rpc # "idle" /\ plan.hasSteps /\ plan.len <= 50) => rpc # "rejected")
    /\ [][(rpc = "idle" /\ rpc' = "rejected") =>
              UNCHANGED <<page, metrics, now, inflight, dispatched, report>>]_vars
    /\ [][rpc = "rejected" => rpc' = "rejected"]_vars

C4_Witness ==
    /\ rpc = "rejected"
    /\ plan.hasSteps
    /\ plan.len = 51
    /\ page = "open"

\* C5: unless abortOnError is explicitly false, the first failed step is the
\* last step dispatched, and the report has success = false with that step's
\* error.
C5_AbortOnFirstFailure ==
    (plan.abortOnError # "false" /\ failed # <<>>) =>
        /\ Len(failed) = 1
        /\ \A k \in dispatched : k <= failed[1]
        /\ rpc \notin {"loop", "attempt", "inflight", "sleeping"}
        /\ lastError.step = failed[1]
        /\ rpc = "done" =>
            /\ ~report.success
            /\ report.errorStep = failed[1]
            /\ report.error = lastError.code

C5_Witness ==
    /\ rpc = "done"
    /\ plan.abortOnError = "undefined"
    /\ plan.len = 2
    /\ failed = <<0>>
    /\ dispatched = {0}

\* C6: with abortOnError = false a failed step does not end the loop: every
\* step is dispatched unless the budget is exceeded, and once a step has failed
\* the report has success = false with the error of the last step that failed.
C6_ContinueKeepsLastFailure ==
    plan.abortOnError = "false" =>
        /\ failed # <<>> => lastError.step = failed[Len(failed)]
        /\ rpc = "done" =>
            /\ \/ dispatched = 0..(plan.len - 1)
               \/ (plan.maxDurationMs # 0 /\ now - started > plan.maxDurationMs)
            /\ failed # <<>> =>
                /\ ~report.success
                /\ report.errorStep = failed[Len(failed)]
                /\ report.error = lastError.code
                /\ report.error # "undefined"

C6_Witness ==
    /\ rpc = "done"
    /\ plan.abortOnError = "false"
    /\ plan.len = 2
    /\ failed = <<0>>
    /\ dispatched = {0, 1}
    /\ ~report.success
    /\ report.errorStep = 0

\* C7: a step after the first is fetched only while the elapsed time does not
\* exceed a given budget, whatever abortOnError is; once the budget is exceeded
\* at the end of a step, no later step is dispatched.
C7_BudgetStopsLoop ==
    /\ (rpc = "loop" /\ i > 0 /\ plan.maxDurationMs # 0) =>
            now - started <= plan.maxDurationMs
    /\ \A k \in dispatched : k <= i
    /\ (rpc = "attempt" /\ attempt = 0 /\ i > 0 /\ plan.maxDurationMs # 0) =>
            now - started <= plan.maxDurationMs

C7_Witness ==
    /\ rpc = "done"
    /\ plan.abortOnError = "false"
    /\ plan.maxDurationMs # 0
    /\ plan.len = 2
    /\ dispatched = {0}
    /\ now - started > plan.maxDurationMs

\* C8: steps are dispatched in plan order, one at a time: the dispatched steps
\* are always an initial segment of the plan ending at the current step, at most
\* one engine operation is in flight, and the loop moves to the next step only
\* when nothing of the current step is in flight.
InOrder(S) == \A k \in S : \A m \in 0..k : m \in S

C8_SequentialInOrder ==
    /\ Cardinality(inflight) <= 1
    /\ InOrder(dispatched)
    /\ dispatched \subseteq 0..i
    /\ (Running /\ i > 0) => (i - 1) \in dispatched
    /\ rpc \in {"loop", "attempt"} => inflight = {}
    /\ \A o \in inflight : o.step = i /\ (o.kind \in {"action", "sleep"} => o.attempt = attempt)

C8_Witness ==
    /\ rpc = "inflight"
    /\ i = 1
    /\ attempt = 2
    /\ Cardinality(inflight) = 1

\* C9: a fragile step that fails twice and succeeds on its third attempt does
\* not fail the run, and the two backoff sleeps between its attempts add up to
\* at least 900 ms.
C9_ThirdAttemptSuccess ==
    (StepFinished /\ Len(outcomes) = 3 /\ outcomes[3].code = "ok") =>
        /\ outcomes[1].code # "ok" /\ outcomes[2].code # "ok"
        /\ Len(sleeps) = 2
        /\ sleeps[1] + sleeps[2] >= 900
        /\ sleeps[1] >= 300 /\ sleeps[2] >= 600
        /\ FinishedIndex \notin SeqRange(failed)
        /\ lastError.step # FinishedIndex

C9_Witness ==
    /\ rpc = "loop"
    /\ Len(outcomes) = 3
    /\ outcomes[3].code = "ok"
    /\ sleeps = <<300, 600>>
    /\ failed = <<>>

\* C10 (as stated): a run during which the session was closed returns a
\* report with success = false.
C10_CloseFailsRun == (rpc = "done" /\ closedDuringRun) => ~report.success

\* C10 (amended): while the session stays closed a run in progress does not
\* block: an attempt dispatched on the closed session fails its step at once
\* (no engine call, no backoff sleep), an operation pending on the closed page
\* settles as a failure, and run eventually returns its report; the report has
\* success = false exactly when a step failed.
C10_ReturnsAfterClose ==
    /\ (Running /\ page = "null") ~> (rpc = "done" \/ page # "null")
    /\ [][(rpc = "attempt" /\ page = "null" /\ rpc' # "attempt") =>
              /\ Len(failed') = Len(failed) + 1
              /\ sleeps' = sleeps
              /\ inflight' = {}]_vars
    /\ [][\A o \in inflight : (o.pg = "closed" /\ o \notin inflight') =>
              CASE o.kind = "action" ->
                     /\ Len(outcomes') = Len(outcomes) + 1
                     /\ outcomes'[Len(outcomes')].code # "ok"
                [] o.kind = "sleep" ->
                     /\ Len(failed') = Len(failed) + 1
                     /\ sleeps' = sleeps
                [] o.kind = "shot" -> report'.screenshot = "null"
                [] o.kind = "dom" -> report'.domSnippet = "null"
                [] OTHER -> TRUE]_vars
    /\ [](rpc = "done" => (report.success = (failed = <<>>)))

C10_Witness ==
    /\ rpc = "done"
    /\ closedDuringRun
    /\ page = "null"
    /\ ~report.success
    /\ lastError.cause = "notopen"
    /\ dispatched = {0, 1}

\* C11 (as stated): every artifact that could not be collected is null in
\* the report.
C11_NullPlaceholders ==
    rpc = "done" =>
        /\ report.screenshot \in {"image", "null"}
        /\ report.domSnippet \in {"tree", "null"}
        /\ report.lastState \in {"state", "null"}

\* C11 (amended): however the loop ends, the screenshot, the DOM snippet and
\* the session state are each attempted, in that order, before run returns; a
\* failed screenshot or DOM snippet is null in the report and a failed session
\* state is an empty object; none of these failures stops the other attempts,
\* makes run reject or changes success.
C11_ArtifactsAlwaysCollected ==
    /\ rpc \in {"dom", "domwait", "state", "statewait", "done"} =>
            report.screenshot \in {"image", "null"}
    /\ rpc \in {"state", "statewait", "done"} =>
            report.domSnippet \in {"tree", "null"}
    /\ rpc = "done" =>
            /\ report.lastState \in {"state", "empty"}
            /\ thrown = "none"
            /\ report.success = (failed = <<>>)
    /\ rpc \in {"shot", "shotwait"} => report.screenshot = "unset"
    /\ rpc \in {"shot", "shotwait", "dom", "domwait"} => report.domSnippet = "unset"
    /\ Running => report.lastState = "unset"

C11_Witness ==
    /\ rpc = "done"
    /\ report.success
    /\ plan.len = 1
    /\ report.screenshot = "null"
    /\ report.domSnippet = "tree"
    /\ report.lastState = "empty"

\* the last k elements of q
LastOf(q, k) == SubSeq(q, (Len(q) - k) + 1, Len(q))

\* C12: after any number of reported events each buffer holds exactly the
\* most recent min(n, capacity) of its records, in arrival order (capacity 500
\* for console, 1000 for network): it never exceeds its capacity and the records
\* dropped are the oldest.
C12_RingKeepsMostRecent ==
    /\ Len(console) = Min(Len(consoleSeen), 500)
    /\ console = LastOf(consoleSeen, Len(console))
    /\ Len(network) = Min(Len(networkSeen), 1000)
    /\ network = LastOf(networkSeen, Len(network))

C12_Witness ==
    /\ Len(consoleSeen) = 600
    /\ Len(console) = 500
    /\ console[1] = consoleSeen[101]
    /\ console[500] = consoleSeen[600]
    /\ network # <<>>

\* C13: an action called while no open() has returned without error since
\* construction or since the last completed close() fails with the INTERNAL
\* 'not opened' error and makes no engine call.
C13_FailsFastUnlessOpen ==
    (last.action # "none" /\ ~last.opened) =>
        /\ last.code = "INTERNAL"
        /\ last.cause = "notopen"
        /\ ~last.engine

SessionClosed ==
    /\ browser = "null"
    /\ context = "null"
    /\ page = "null"
    /\ ~frameInterval

\* C14: close() never rejects, whatever the engine's close operations do; on
\* a session that was never opened it leaves the session as constructed; and
\* once every close() called has completed, the latest of them not having run
\* while an open() was in progress, the session is in the same closed state
\* after the first close() as after a repeated one: no browser, context or page
\* handle and no preview timer.
C14_CloseIdempotent ==
    /\ ~closeThrew
    /\ life = "new" => (SessionClosed /\ closers = 0)
    /\ (closes > 0 /\ closers = 0 /\ ~overlap) => SessionClosed

C14_Witness ==
    /\ life = "opened"
    /\ closes = 2
    /\ closers = 0
    /\ ~overlap
    /\ SessionClosed

\* C15: every call of a primitive action on an open session (open() has
\* returned, no close() has completed, the 'not opened' check passes) has, when
\* it returns or throws, changed the metrics by exactly one count: one action
\* or one error.
C15_MetricsOncePerCall ==
    (last.opened /\ last.cause # "notopen" /\ last.code # "pending") =>
        last.delta = 1

\* the latest call of guardNavigation was made on a parseable URL whose scheme,
\* as parsed, is http or https
HttpCall ==
    /\ gLast.called
    /\ gLast.raw.valid
    /\ LowerCase(gLast.raw.scheme) \in {"http", "https"}

\* g lies in the block of 16-bit groups whose leading `bits` bits are those of base
InPrefix(g, base, bits) == (g \div Pow2(16 - bits)) = (base \div Pow2(16 - bits))

\* the host lies in one of the private ranges: 127.0.0.0/8, ::1, 169.254.0.0/16,
\* fe80::/10, 10.0.0.0/8, 172.16.0.0/12, 192.168.0.0/16, fc00::/7, localhost
InPrivateRange(h) ==
    \/ /\ h.kind = "v4"
       /\ \/ h.a = 127
          \/ h.a = 169 /\ h.b = 254
          \/ h.a = 10
          \/ h.a = 172 /\ h.b \in 16..31
          \/ h.a = 192 /\ h.b = 168
    \/ /\ h.kind = "v6"
       /\ \/ h.g1 = 0
          \/ InPrefix(h.g1, 65152, 10)
          \/ InPrefix(h.g1, 64512, 7)
    \/ /\ h.kind = "name"
       /\ Len(h.labels) = 1
       /\ LowerCase(h.labels[1]) = "localhost"

\* C16: unless blockPrivateIPs is explicitly false, guardNavigation fails with
\* SECURITY_BLOCKED for every http/https URL whose host lies in a listed private
\* range, the whole of fe80::/10 and of fc00::/7 included.
C16_PrivateRangesBlocked ==
    (HttpCall /\ options.blockPrivateIPs # "false" /\ InPrivateRange(gLast.raw.host)) =>
        gLast.out = "SECURITY_BLOCKED"

\* C17: whatever the options, an input that does not parse as a URL fails
\* with BAD_INPUT (and nothing else does), and a URL whose scheme is not http or
\* https fails with SECURITY_BLOCKED, also when blockPrivateIPs is disabled and
\* the allow-pattern matches the URL.
C17_PrecedenceOfRejections ==
    gLast.called =>
        /\ ~gLast.raw.valid => gLast.out = "BAD_INPUT"
        /\ gLast.out = "BAD_INPUT" => ~gLast.raw.valid
        /\ (gLast.raw.valid /\ ~HttpCall) => gLast.out = "SECURITY_BLOCKED"

C17_Witness ==
    /\ gLast.called
    /\ gLast.raw.valid
    /\ gLast.raw.scheme = "ftp"
    /\ options.blockPrivateIPs = "false"
    /\ options.allowNavigationTo.accepts = "anyUrl"
    /\ gLast.out = "SECURITY_BLOCKED"

\* C18: when an allow-pattern is set, every URL that the pattern does not
\* match fails with SECURITY_BLOCKED, also when blockPrivateIPs is disabled and
\* the host is public.
C18_AllowlistExclusive ==
    (/\ gLast.called
     /\ gLast.raw.valid
     /\ options.allowNavigationTo # NoAllow
     /\ ~Accepts(options.allowNavigationTo, ensureValidUrl(gLast.raw))) =>
        gLast.out = "SECURITY_BLOCKED"

C18_Witness ==
    /\ gLast.called
    /\ gLast.raw.scheme = "http"
    /\ gLast.raw.host.labels = <<"example", "com">>
    /\ options.blockPrivateIPs = "false"
    /\ options.allowNavigationTo.accepts = "httpsExample"
    /\ gLast.out = "SECURITY_BLOCKED"

\* C19: with blockPrivateIPs explicitly false and either no allow-pattern or
\* an allow-pattern that matches the URL (tested from lastIndex 0 when it has
\* the g flag), guardNavigation succeeds for every http/https URL, private hosts
\* included, and returns the URL as the parser serializes it.
C19_DisabledBlockAllowsPrivate ==
    (/\ HttpCall
     /\ options.blockPrivateIPs = "false"
     /\ \/ options.allowNavigationTo = NoAllow
        \/ /\ Accepts(options.allowNavigationTo, ensureValidUrl(gLast.raw))
           /\ (options.allowNavigationTo.global => gLast.li = 0)) =>
        /\ gLast.out = "ok"
        /\ gLast.url = Href(ensureValidUrl(gLast.raw))

C19_Witness ==
    /\ gLast.called
    /\ gLast.raw.scheme = "HTTPS"
    /\ gLast.raw.host.labels = <<"LOCALHOST">>
    /\ options.blockPrivateIPs = "false"
    /\ options.allowNavigationTo.accepts = "anyHttp"
    /\ gLast.out = "ok"
    /\ gLast.url[1] = "https"
    /\ gLast.url[3].labels = <<"localhost">>
    /\ gLast.url[4] = "/"

\* C20: a call of guardNavigation with the same URL as the call before it
\* (the options never change) has the same outcome: the same error kind or the
\* same returned URL.
C20_SameCallSameOutcome ==
    [][(gLast.called /\ gLast'.called /\ gLast'.raw = gLast.raw) =>
           (gLast'.out = gLast.out /\ gLast'.url = gLast.url)]_vars

\* a navigate step whose URL the session's guard blocks
GuardRejects(st) ==
    /\ st.action = "navigate" /\ st.url # "none"
    /\ guardNavigation(ClassUrl(st.url), options, lastIndex).out = "SECURITY_BLOCKED"

\* C21: for a navigate step whose URL the guard blocks, the engine's navigate
\* is never invoked, the step is dispatched once and never retried, and the
\* error it ends with is SECURITY_BLOCKED (INTERNAL when the session had no
\* page at the call, which is tested before the guard).
C21_GuardBeforeEngine ==
    (rpc \in {"attempt", "inflight", "sleeping", "loop", "shot"} /\ GuardRejects(step)) =>
        /\ rpc \notin {"inflight", "sleeping"}
        /\ \A o \in inflight : o.kind \notin {"action", "sleep"}
        /\ sleeps = <<>>
        /\ attempt = 0
        /\ IF rpc = "attempt" THEN outcomes = <<>>
           ELSE /\ Len(outcomes) = 1
                /\ lastError.step \in dispatched \cap {i - 1, i}
                /\ \/ outcomes[1] = [code |-> "SECURITY_BLOCKED", cause |-> "guard"]
                   \/ outcomes[1] = [code |-> "INTERNAL", cause |-> "notopen"]
                /\ lastError.code = outcomes[1].code
                /\ lastError.cause = outcomes[1].cause

C21_Witness ==
    /\ rpc = "loop"
    /\ GuardRejects(step)
    /\ page = "open"
    /\ outcomes = <<[code |-> "SECURITY_BLOCKED", cause |-> "guard"]>>
    /\ lastError = [step |-> 0, code |-> "SECURITY_BLOCKED", cause |-> "guard"]
    /\ dispatched = {0}
    /\ metrics = [actions |-> 0, errors |-> 0]

\* C22: on an open session, the engine's click is performed only for a call
\* with exactly one of selector and text, and a click call rejected for its
\* arguments fails with BAD_INPUT.
C22_ClickNeedsExactlyOne ==
    /\ (pending.action = "click" /\ last.opened) => (pending.selector # pending.text)
    /\ (last.action = "click" /\ last.opened /\ last.cause = "validation") =>
            last.code = "BAD_INPUT"

\* C23: every failure surfaced by an action called on an open session carries
\* one of the seven stable codes.
C23_StableCodes ==
    (last.opened /\ last.code \notin {"none", "pending", "ok"}) =>
        last.code \in EyesCodes

\* C30 (as stated): a11y never throws, in any session state.
C30_NeverThrows ==
    last.action = "a11y" => last.code \in {"pending", "ok"}

\* C30: a11y called on a session that has a page never throws: it returns the
\* engine's tree, or null when the engine's query fails; called on a session
\* without a page it fails at once with INTERNAL, like every operation.
C30_ThrowsOnlyWithoutPage ==
    last.action = "a11y" =>
        \/ last.code = "pending" /\ last.engine /\ pending.action = "a11y"
        \/ last.code = "ok" /\ last.engine /\ last.ret \in {"tree", "null"}
        \/ last.code = "INTERNAL" /\ last.cause = "notopen" /\ ~last.engine

C30_Witness ==
    /\ last.action = "a11y"
    /\ last.opened
    /\ last.code = "ok"
    /\ last.ret = "null"
    /\ page = "open"

\* the configured rate clamped to [0.5, 8] frames per second, in tenths
ClampedFps == Min(Max(IF fps.given THEN fps.tenths ELSE 30, 5), 80)

\* C24 (as stated): the timer period is 1000 / clamp(fps, 0.5, 8) ms rounded
\* down: 125 ms for fps = 8, 2000 ms for fps <= 0.5.
C24_PeriodFollowsClampedRate ==
    frameInterval =>
        /\ period * ClampedFps <= 10000
        /\ 10000 < (period + 1) * ClampedFps

\* C24: the timer period is 1000 / clamp(fps, 0.5, 8) ms rounded down, but never
\* less than 200 ms: 333 ms by default, 2000 ms for fps <= 0.5, and 200 ms for
\* every fps of 5 or more (fps = 8 included), so at most 5 frames per second.
C24_PeriodAtLeast200 ==
    /\ frameInterval <=> period # 0
    /\ frameInterval =>
        /\ period >= 200 /\ period <= 2000
        /\ 10000 < (period + 1) * ClampedFps
        /\ period > 200 => period * ClampedFps <= 10000
        /\ ~fps.given => period = 333
        /\ (fps.given /\ fps.tenths <= 5) => period = 2000
        /\ (fps.given /\ fps.tenths >= 50) => period = 200

C24_Witness ==
    /\ frameInterval
    /\ page = "open"
    /\ fps = [given |-> TRUE, tenths |-> 80]
    /\ period = 200

\* C29: screenshot sends quality 70 to the encoder when the format is webp and
\* the caller gave no quality, and sends no quality when the caller asked for
\* png, whatever quality argument was passed.
C29_NoQualityForPng ==
    shot.encoder # NoEncoder =>
        /\ (shot.encoder.type = "webp" /\ shot.quality = NoQuality) =>
                shot.encoder.quality = [type |-> "number", n |-> 70]
        /\ shot.format = "png" =>
                (shot.encoder.type = "png" /\ shot.encoder.quality = NoQuality)

\* visualStability has returned its result
StabReturned == stab.at = "done" /\ stab.code = "ok"

\* the option o (default d) brought into [lo, hi]
InRange(o, d, lo, hi) ==
    LET v == IF o.given THEN o.n ELSE d IN
    IF v < lo THEN lo ELSE IF v > hi THEN hi ELSE v

StabClamps ==
    /\ stab.durationMs = InRange(stab.opts.durationMs, 2000, 300, 15000)
    /\ stab.fps = InRange(stab.opts.fps, 30, 10, 100)
    /\ stab.threshold = InRange(stab.opts.threshold, 2000, 0, 100000)

\* the average of the ratios computed is at most the clamped threshold
AvgWithinThreshold ==
    stab.diffs.length > 0 => stab.diffs.sum <= stab.threshold * stab.diffs.length

\* C25 (as stated): visualStability clamps durationMs to [300, 15000], fps to
\* [1, 10] and threshold to [0, 1] (default 0.02), reports one sample for
\* every consecutive pair of the captured frames (samples = frames - 1),
\* stable = true exactly when the average of the ratios is <= the clamped
\* threshold, and maxDiff the largest ratio.
C25_SamplesEveryPair ==
    StabReturned =>
        /\ StabClamps
        /\ stab.result.samples = stab.frames - 1
        /\ stab.result.stable <=> AvgWithinThreshold
        /\ stab.result.maxDiff = stab.diffs.max

\* C25 (amended): the clamps are as stated; samples is the number of
\* consecutive pairs whose comparison completed (a comparison that throws is
\* dropped), so samples = frames - 1 - dropped; stable = true exactly when
\* the average of the completed ratios is <= the clamped threshold, and
\* always when there is none (avgDiff = maxDiff = 0 then); maxDiff is the
\* largest completed ratio rounded to four decimals.
C25_SamplesCompletedPairs ==
    StabReturned =>
        /\ StabClamps
        /\ stab.frames >= 1
        /\ stab.result.samples = stab.frames - 1 - stab.skipped
        /\ stab.result.stable <=> AvgWithinThreshold
        /\ stab.result.samples = 0 =>
                (stab.result.stable /\ stab.result.avgDiff = 0 /\ stab.result.maxDiff = 0)
        /\ stab.result.maxDiff % 10 = 0
        /\ stab.result.maxDiff - stab.diffs.max \in -5 .. 5

\* a duration above the range, a dropped comparison and an unstable verdict
C25_Witness ==
    /\ StabReturned
    /\ stab.opts.durationMs.given /\ stab.opts.durationMs.n > 15000
    /\ stab.skipped > 0
    /\ stab.result.samples > 0
    /\ ~stab.result.stable
    /\ stab.result.maxDiff # stab.diffs.max

\* both loads of the diffDataURLs call have settled
DiffSettled == cmp.loadA \in {"loaded", "failed"} /\ cmp.loadB \in {"loaded", "failed"}

\* C26: diffDataURLs always terminates with a ratio in [0, 1]: once both
\* loads have settled it has returned, with 1 when either image failed to
\* decode and with 0 when both inputs are the same image.
C26_DiffTerminates ==
    (DiffSettled /\ cmp.ret.kind # "threw") =>
        /\ cmp.at = "done"
        /\ cmp.ret.kind = "ratio"
        /\ 0 <= cmp.ret.diff /\ cmp.ret.diff <= cmp.ret.total
        /\ (~cmp.a.decodes \/ ~cmp.b.decodes) => cmp.ret.diff = cmp.ret.total
        /\ (cmp.a.decodes /\ cmp.a = cmp.b) => cmp.ret.diff = 0

\* For images that decode, the parts of C26 that hold: a ratio in [0, 1],
\* 0 for the same image.
DiffOfDecodedImages ==
    (DiffSettled /\ cmp.ret.kind # "threw" /\ cmp.a.decodes /\ cmp.b.decodes) =>
        /\ cmp.at = "done"
        /\ cmp.ret.kind = "ratio"
        /\ 0 <= cmp.ret.diff /\ cmp.ret.diff <= cmp.ret.total
        /\ cmp.a = cmp.b => cmp.ret.diff = 0

\* two calls of aHashDataURL have returned a hash
TwoHashes == hash.prev.kind = "hex" /\ hash.ret.kind = "hex"

\* C27: aHashDataURL is deterministic and yields 16 hexadecimal characters
\* for an image that loads, and a solid black and a solid white image yield
\* hashes that differ in at least one bit.
C27_BlackAndWhiteDiffer ==
    /\ (hash.load = "loaded" /\ hash.ret.kind # "threw") =>
            /\ hash.ret.kind = "hex"
            /\ Len(hash.ret.hex) = 16
            /\ \A n \in 1 .. 16 : \E d \in 1 .. 16 : hash.ret.hex[n] = HexChars[d]
    /\ (TwoHashes /\ hash.prevImg = hash.img) => hash.prev.hex = hash.ret.hex
    /\ (TwoHashes /\ hash.prevImg = Solid(Black, 8, 8) /\ hash.img = Solid(White, 8, 8)) =>
            hash.prev.hex # hash.ret.hex

\* The parts of C27 that hold for images that load: 16 hexadecimal
\* characters, the same for the same image, all "f" for a solid image and
\* different from that for an image with a darker and a lighter half.
HashOfLoadedImages ==
    /\ (hash.load = "loaded" /\ hash.ret.kind # "threw") =>
            /\ hash.ret.kind = "hex"
            /\ Len(hash.ret.hex) = 16
            /\ \A n \in 1 .. 16 : \E d \in 1 .. 16 : hash.ret.hex[n] = HexChars[d]
            /\ hash.img.left = hash.img.right <=> hash.ret.hex = [n \in 1 .. 16 |-> "f"]
    /\ (TwoHashes /\ hash.prevImg = hash.img) => hash.prev.hex = hash.ret.hex

\* serializeDOM has returned a tree
DomReturned == dom.at = "done" /\ dom.code = "ok"

\* C28: the tree returned by serializeDOM has its root at depth 1 and no
\* node deeper than maxDepth clamped to [1, 10], no node with more than 1000
\* children, and no text field longer than 2000 characters.
C28_TreeBounded ==
    DomReturned =>
        /\ dom.tree.depth >= 1
        /\ dom.tree.depth <= InRange(dom.opt, 4, 1, 10)
        /\ dom.tree.children <= 1000
        /\ dom.tree.text <= 2000

\* What holds of the returned tree: the depth and text bounds of C28, and
\* at most 1001 children for a node.
TreeBoundedBy1001 ==
    DomReturned =>
        /\ dom.tree.depth >= 1
        /\ dom.tree.depth <= InRange(dom.opt, 4, 1, 10)
        /\ dom.tree.children <= 1001
        /\ dom.tree.text <= 2000

\* C40: a result of visualStability with stable = true rests on at least one
\* comparison of two frames (samples >= 1).
C40_StableNeedsSample ==
    (StabReturned /\ stab.result.stable) => stab.result.samples >= 1

\* records is the last Min(n, Len(buffer)) records of buffer, in order
MostRecent(records, buffer, n) ==
    /\ Len(records) = Min(n, Len(buffer))
    /\ records = SubSeq(buffer, (Len(buffer) - Len(records)) + 1, Len(buffer))

\* C38: for every n >= 0, getConsole(n) and getNetwork(n) return at most n
\* records, exactly the most recent min(n, buffer length) in insertion order,
\* and leave the buffers as they were.
C38_AtMostNRecords ==
    /\ got.call = "getConsole" => MostRecent(got.records, console, OrDefault(got.n, 100))
    /\ got.call = "getNetwork" => MostRecent(got.records, network, OrDefault(got.n, 200))
    /\ console = consoleSeen
    /\ network = networkSeen

\* What holds of the getters: C38 for every n >= 1 and for the default.
MostRecentForPositive ==
    /\ (got.call = "getConsole" /\ OrDefault(got.n, 100) >= 1) =>
            MostRecent(got.records, console, OrDefault(got.n, 100))
    /\ (got.call = "getNetwork" /\ OrDefault(got.n, 200) >= 1) =>
            MostRecent(got.records, network, OrDefault(got.n, 200))
    /\ console = consoleSeen
    /\ network = networkSeen

\* C34: the errorRate returned by metrics() lies in [0, 1], and it is 0 only
\* if no action call has failed.
C34_ErrorRateInUnitInterval ==
    got.call = "metrics" =>
        /\ 0 <= got.errorRate.num
        /\ got.errorRate.num <= got.errorRate.den
        /\ got.errorRate.num = 0 => got.errors = 0

\* C35: once a call of open() has returned without error (and no close() has
\* completed since), an action does not fail with the INTERNAL 'not opened'
\* error, also when an earlier open() failed after the browser was launched.
C35_OpenedIsUsable ==
    (last.action # "none" /\ last.opened) =>
        ~(last.code = "INTERNAL" /\ last.cause = "notopen")

\* b is a backoff that may follow failed attempt number a (0-based):
\* min(2000, 300 * 2^a) + j for an integer j, 0 <= j < 100
IsBackoff(b, a) == (b - Min(2000, 300 * Pow2(a))) \in 0 .. 99

\* C32: the backoff slept after failed attempt number a (0-based) of a
\* fragile step is min(2000, 300 * 2^a) + j ms with 0 <= j < 100: within
\* [300, 400) after the first failure and [600, 700) after the second; no
\* sleep follows the final attempt, a successful attempt, or an attempt of a
\* step that is not fragile.
C32_BackoffSchedule ==
    /\ Len(sleeps) <= 2
    /\ \A k \in 1 .. Len(sleeps) :
        /\ IsBackoff(sleeps[k], k - 1)
        /\ k = 1 => sleeps[k] \in 300 .. 399
        /\ k = 2 => sleeps[k] \in 600 .. 699
        /\ k <= Len(outcomes) /\ outcomes[k].code # "ok"
        /\ IsFragileStep(step) /\ k < 3
    /\ \A o \in inflight : o.kind = "sleep" =>
        /\ IsFragileStep(step)
        /\ o.attempt \in {0, 1}
        /\ Len(outcomes) = o.attempt + 1
        /\ outcomes[Len(outcomes)].code # "ok"
        /\ Len(sleeps) = o.attempt
        /\ IsBackoff(o.ms, o.attempt)
    /\ StepFinished => Len(sleeps) < Len(outcomes)

\* a fragile step has failed three times, with the largest jitter after the
\* first failure and the smallest after the second, and nothing slept after
\* the third
C32_Witness ==
    /\ StepFinished
    /\ Len(outcomes) = 3
    /\ outcomes[3].code # "ok"
    /\ sleeps = <<399, 600>>
    /\ inflight = {}

\* C33: a report with success = true implies that every step of the plan was
\* dispatched and that no step failed; a run that skipped steps, the budget
\* being exceeded, does not report success = true.
C33_SuccessMeansAllSteps ==
    (rpc = "done" /\ report.success) =>
        /\ dispatched = 0 .. (plan.len - 1)
        /\ failed = <<>>

\* What holds of a report with success = true: no step that was dispatched
\* failed, and the dispatched steps are an initial segment of the plan.
SuccessMeansNoFailure ==
    (rpc = "done" /\ report.success) =>
        /\ failed = <<>>
        /\ lastError = NoError
        /\ InOrder(dispatched)
        /\ dispatched \subseteq 0 .. (plan.len - 1)

\* the hosts that the guard's list names: 10.*, 127.*, 169.254.*,
\* 172.16-31.*, 192.168.*, ::1, fe80:*, fc00:*, fd00:* and localhost
ListedPrivate(h) ==
    \/ /\ h.kind = "v4"
       /\ \/ h.a \in {10, 127}
          \/ h.a = 169 /\ h.b = 254
          \/ h.a = 172 /\ h.b \in 16 .. 31
          \/ h.a = 192 /\ h.b = 168
    \/ h.kind = "v6" /\ h.g1 \in {0, 65152, 64512, 64768}
    \/ h.kind = "name" /\ h.labels \in {<<"localhost">>, <<"LOCALHOST">>}

\* C39: an allow-pattern match never overrides the private-host block: unless
\* blockPrivateIPs is explicitly false, an http/https URL whose host is on the
\* guard's private list fails with SECURITY_BLOCKED whether or not the
\* allow-pattern matches it; and guardNavigation succeeds only if the scheme
\* is http or https, the allow-pattern (if any) matches the URL, and the host
\* is not on the private list or the block is disabled.
C39_AllowNeverOverridesBlock ==
    gLast.called =>
        /\ (HttpCall /\ options.blockPrivateIPs # "false" /\ ListedPrivate(gLast.raw.host)) =>
                gLast.out = "SECURITY_BLOCKED"
        /\ gLast.out = "ok" =>
                /\ HttpCall
                /\ \/ options.allowNavigationTo = NoAllow
                   \/ Accepts(options.allowNavigationTo, ensureValidUrl(gLast.raw))
                /\ options.blockPrivateIPs = "false" \/ ~ListedPrivate(gLast.raw.host)

\* http://10.0.0.1/ is blocked under an allow-pattern that matches every URL
C39_Witness ==
    /\ gLast.called
    /\ gLast.raw.scheme = "http"
    /\ gLast.raw.host.kind = "v4" /\ gLast.raw.host.a = 10
    /\ options.allowNavigationTo.accepts = "anyUrl"
    /\ gLast.li = 0
    /\ options.blockPrivateIPs = "undefined"
    /\ gLast.out = "SECURITY_BLOCKED"

\* C36: whatever the number of overlapping or repeated open() calls with no
\* close() between them, at most one browser is launched and at most one
\* preview-frame timer is running.
C36_OneBrowserOneTimer ==
    /\ multi.launched <= 1
    /\ multi.timers <= 1

\* new is old, or old with one record pushed at its end
IsAppend(old, new) ==
    \/ new = old
    \/ Len(new) = Len(old) + 1 /\ SubSeq(new, 1, Len(old)) = old

\* C31: a step of a background activity (a timer tick, a capture settling, a
\* console or network callback, a response lookup settling), taken at any
\* point of open(), close() and screenshot(), leaves the metrics, the engine
\* handles, the timer handle, the page state and the foreground call as they
\* were and lets no error escape; of the session state it changes only the
\* two buffers, by appending one record; a capture that fails changes neither.
C31_BackgroundWritesOnlyBuffers ==
    [][Background =>
        /\ metrics' = metrics
        /\ page' = page
        /\ UNCHANGED <<browser, context, frameInterval, period>>
        /\ shot' = shot
        /\ ~bg'.uncaught
        /\ IsAppend(console, console') /\ IsAppend(network, network')
        /\ (FrameSettle /\ bg'.frames = bg.frames) => UNCHANGED <<console, network>>]_vars

\* a screenshot has succeeded, the capture of a timer tick has failed and a
\* console record has been appended
C31_Witness ==
    /\ shot.code = "ok" /\ metrics.actions = 1
    /\ bg.ticks = 1 /\ bg.frames = 0
    /\ \A o \in inflight : o.kind # "frame"
    /\ Len(console) = 1
    /\ ~bg.uncaught

\* C37: while the session holds no page (close() has completed, or open() was
\* never called) no 'frame' event is emitted and no record is appended to
\* either buffer, also when a capture or a response lookup issued before
\* close() settles afterwards.
C37_SilentAfterClose ==
    [][page = "null" =>
        /\ bg'.frames = bg.frames
        /\ console' = console
        /\ network' = network]_vars

\* one capture and one response lookup were in flight when close() was called
\* and both have settled after it completed
C37_Witness ==
    /\ page = "null"
    /\ bg.ticks = 1 /\ nEvents = 1
    /\ bg.late = 2
    /\ inflight = {}
    /\ bg.frames = 0 /\ network = <<>>

====
